---- MODULE Spec2Model ----
(***************************************************************************)
(* Model of the ingestion pipeline of the financial data platform:        *)
(*   - apiRequest / shouldRetry / batchRequests (utils, src/unnamed/part_002)*)
(*   - the keyword fetch loop of fetchNewsScheduledFunction               *)
(*   - categorizeSentiment                                               *)
(* Each component has its own specification over the shared variables;   *)
(* a specification leaves the variables of the other components idle.    *)
(***************************************************************************)
EXTENDS Integers, Sequences, FiniteSets, TLC

VARIABLES
    \* ---- one direct call apiRequest(config, maxRetries, initialDelayMs)
    maxRetries,     \* the `retries` argument of the outermost call
    initialDelay,   \* the `retryDelay` argument of the outermost call (ms)
    call,           \* the call's frame: pc, retries, retryDelay, error
    log,            \* observed events of the call: attempts and sleeps, in order
    \* ---- one run of batchRequests(requests, batchSize)
    nRequests,      \* requests.length
    batchSize,      \* the batchSize argument
    i,              \* the loop index of batchRequests (0-based, as in the code)
    bpc,            \* position of batchRequests: loop, await, pause, done, rejected
    results,        \* the results array
    calls,          \* per request (1-based position): the frame of its apiRequest call
    outcome,        \* per request: what its apiRequest call finally did
    groups,         \* sizes of the groups formed so far, in order
    pauses,         \* number of inter-batch pauses that have elapsed
    \* ---- one run of fetchNewsScheduledFunction
    npc,            \* position of the run: fetch, enrich, store, generate, done, failed
    keyword,        \* number of search keywords already queried
    allNewsArticles,\* the collected article list
    firstSeen,      \* per url: the first article fetched with it, if any
    urlOrder,       \* the urls in the order of their first appearance
    lastSeen,       \* per url: the latest article fetched with it, if any
    \* ---- one call of categorizeSentiment
    score,          \* the argument, in units of 1/ScoreResolution
    category,       \* the returned label
    \* ---- one call of processSentiment
    ppc,            \* called, resolved
    text,           \* the argument
    sentimentScore, \* the number the promise resolves with
    \* ---- one call of identifyStocksInNews
    ipc,            \* called, returned
    newsArticles,   \* the articles passed in
    stockSymbols,   \* the symbol list passed in
    identified,     \* the articles returned
    \* ---- one call of groupNewsByStock
    gpc,            \* called, returned
    taggedArticles, \* the articles passed in
    stockNewsMap,   \* the map returned
    \* ---- scoring and filtering of one fetched article in the news run
    rpc,            \* fetched, scored, filtered
    fetchedArticle, \* the article as fetched
    enrichedArticle,\* the article with sentimentScore, tickers, relevanceScore
    relevantArticles,\* what the relevance filter keeps of it
    \* ---- one call of enrichStockData
    epc,            \* called, returned
    stockData,      \* the quote passed in
    historicalData, \* the history passed in, if any
    enriched,       \* the record returned
    \* ---- one call of correlateNewsWithMarketMovements
    cpc,            \* called, returned
    quote,          \* the stockData argument
    newsData,       \* the articles passed in
    correlation,    \* the result returned
    \* ---- the storage steps of one ingestion run (news, market or options)
    invoked,        \* the storage steps invoked so far, in order
    runError,       \* the step whose error the run re-raised, or "none"
    \* ---- the storage steps of the news run
    toStore,        \* the relevant articles handed to the storage steps
    newsDocs,       \* per date: the document news/<date>
    generatorToday, \* the date the generator module computed when it was loaded
    \* ---- one market or options ingestion run
    mpc,            \* position of the run: loop, store, generate, done, failed
    runKind,        \* market or options
    attempted,      \* the symbols attempted so far, in order
    collected,      \* marketData / allOptionsData
    succeeded,      \* the symbols whose fetch and parse completed with data
    \* ---- two overlapping calls of manageWatchlist for one user
    userWatchlist,  \* the watchlist field of the stored user document
    wcalls,         \* per call: its position, arguments, local watchlist, outcome
    writes          \* number of updates of the watchlist field so far

apiVars   == <<maxRetries, initialDelay, call, log>>
batchVars == <<nRequests, batchSize, i, bpc, results, calls, outcome, groups, pauses>>
newsVars  == <<npc, keyword, allNewsArticles, firstSeen, urlOrder, lastSeen>>
sentimentVars == <<score, category>>
processVars   == <<ppc, text, sentimentScore>>
identifyVars  == <<ipc, newsArticles, stockSymbols, identified>>
groupVars     == <<gpc, taggedArticles, stockNewsMap>>
relevanceVars == <<rpc, fetchedArticle, enrichedArticle, relevantArticles>>
enrichVars    == <<epc, stockData, historicalData, enriched>>
correlateVars == <<cpc, quote, newsData, correlation>>
runVars       == <<invoked, runError>>
newsStoreVars == <<toStore, newsDocs, generatorToday>>
ingestVars    == <<mpc, runKind, attempted, collected, succeeded>>
watchVars     == <<userWatchlist, wcalls, writes>>
opsVars       == <<runVars, newsStoreVars, ingestVars, watchVars>>
vars      == <<apiVars, batchVars, newsVars, sentimentVars, processVars, identifyVars,
               groupVars, relevanceVars, enrichVars, correlateVars, opsVars>>
enrichmentVars == <<processVars, identifyVars, groupVars, relevanceVars, enrichVars,
                    correlateVars>>
notApiVars   == <<batchVars, newsVars, sentimentVars, enrichmentVars,
                      opsVars>>
notBatchVars == <<apiVars, newsVars, sentimentVars, enrichmentVars,
                      opsVars>>
notNewsVars  == <<apiVars, batchVars, sentimentVars, enrichmentVars,
                      ingestVars, watchVars>>
notSentimentVars == <<apiVars, batchVars, newsVars, enrichmentVars,
                      opsVars>>
fetchVars == <<apiVars, batchVars, newsVars, sentimentVars>>
notProcessVars   == <<fetchVars, identifyVars, groupVars, relevanceVars, enrichVars,
                      correlateVars,
                      opsVars>>
notIdentifyVars  == <<fetchVars, processVars, groupVars, relevanceVars, enrichVars,
                      correlateVars,
                      opsVars>>
notGroupVars     == <<fetchVars, processVars, identifyVars, relevanceVars, enrichVars,
                      correlateVars,
                      opsVars>>
notRelevanceVars == <<fetchVars, processVars, identifyVars, groupVars, enrichVars,
                      correlateVars,
                      opsVars>>
notEnrichVars    == <<fetchVars, processVars, identifyVars, groupVars, relevanceVars,
                      correlateVars,
                      opsVars>>
notCorrelateVars == <<fetchVars, processVars, identifyVars, groupVars, relevanceVars,
                      enrichVars,
                      opsVars>>
notIngestVars    == <<fetchVars, enrichmentVars, newsStoreVars, watchVars>>
notWatchVars     == <<fetchVars, enrichmentVars, runVars, newsStoreVars, ingestVars>>

(***************************************************************************)
(* Bounds of the model                                                    *)
(***************************************************************************)
MaxRetries == 3
MaxRequests == 7
MaxBatchSize == 3
MaxPageSize == 2
MaxWords == 3
MaxTitleWords == 2
MaxSymbols == 2
MaxHistory == 11
MaxNews == 6
MaxCalls == 2
ScoreResolution == 100

(***************************************************************************)
(* Transport outcomes of one axios(config) attempt.  200 stands for any   *)
(* response axios resolves with; NoResponse (status 0) for an error that  *)
(* carries no response (network failure); another number for an error     *)
(* whose response has that status.  NoError marks a frame that has caught  *)
(* no error.                                                               *)
(***************************************************************************)
NoResponse == 0
NoError == -1
OkStatus == 200
ErrorOutcomes == {NoResponse, 400, 404, 429, 499, 500, 503}
Outcomes == {OkStatus} \cup ErrorOutcomes

\* Delays are kept exact: <<num, den>> stands for num/den milliseconds.
Ms(n) == <<n, 1>>
RatEq(a, b) == a[1] * b[2] = b[1] * a[2]

RECURSIVE Pow(_, _)
Pow(b, e) == IF e = 0 THEN 1 ELSE b * Pow(b, e - 1)

(***************************************************************************)
(* apiRequest                                                             *)
(***************************************************************************)
\* A variant that also retries client errors (status >= 400).
shouldRetryClientErrors(error) ==
    IF error = NoResponse
    THEN TRUE
    ELSE error = 429 \/ error >= 400

\* shouldRetry(error)
shouldRetry(error) ==
    IF error = NoResponse
    THEN TRUE
    ELSE error = 429 \/ error >= 500

\* A variant that doubles the delay.
NextRetryDelayDoubled(d) == <<d[1] * 2, d[2]>>

\* retryDelay * 1.5
NextRetryDelay(d) == <<d[1] * 3, d[2] * 2>>

\* The frame of a call apiRequest(config, retries, retryDelay) that has issued
\* axios(config) and awaits it.
StartCall(retries, retryDelay) ==
    [pc |-> "inflight", retries |-> retries, retryDelay |-> retryDelay,
     error |-> NoError]

IdleCall == [pc |-> "idle", retries |-> 0, retryDelay |-> Ms(0), error |-> NoError]

\* The promise of a call that has settled holds only its value or its reason.
Resolved == [pc |-> "resolved", retries |-> 0, retryDelay |-> Ms(0), error |-> NoError]
Rejected(error) ==
    [pc |-> "rejected", retries |-> 0, retryDelay |-> Ms(0), error |-> error]

\* A variant whose retry budget is off by one (retries >= 0).
WillRetryOffByOne(c, error) == c.retries >= 0 /\ shouldRetry(error)

\* The condition of the catch block: retry this failure?
WillRetry(c, error) == c.retries > 0 /\ shouldRetry(error)

\* A variant in which a retrying frame rethrows the error it caught itself
\* instead of the one its recursive call failed with.
ThrownErrorOfFirstFrame(c, error) == IF c.error # NoError THEN c.error ELSE error

\* The error the catch block rethrows.
ThrownError(c, error) == error

\* axios(config) settles with outcome o in frame c: the try/catch of apiRequest.
Settle(c, o) ==
    IF o = OkStatus
    THEN Resolved
    ELSE IF WillRetry(c, o)
         THEN [c EXCEPT !.pc = "sleeping", !.error = o]
         ELSE Rejected(ThrownError(c, o))

\* The setTimeout of the catch block fires: the recursive call
\* apiRequest(config, retries - 1, retryDelay * 1.5) issues axios(config).
Wake(c) ==
    [c EXCEPT !.pc = "inflight", !.retries = c.retries - 1,
              !.retryDelay = NextRetryDelay(c.retryDelay)]

(***************************************************************************)
(* SpecApi: one direct call of apiRequest                                 *)
(***************************************************************************)
InitialDelays == {1000, 400}

BatchIdle ==
    /\ nRequests = 0
    /\ batchSize = 1
    /\ i = 0
    /\ bpc = "idle"
    /\ results = <<>>
    /\ calls = <<>>
    /\ outcome = <<>>
    /\ groups = <<>>
    /\ pauses = 0

NewsIdle ==
    /\ npc = "idle"
    /\ keyword = 0
    /\ allNewsArticles = <<>>
    /\ firstSeen = <<>>
    /\ urlOrder = <<>>
    /\ lastSeen = <<>>

SentimentIdle ==
    /\ score = 0
    /\ category = "none"

ProcessIdle ==
    /\ ppc = "idle"
    /\ text = <<>>
    /\ sentimentScore = <<>>

IdentifyIdle ==
    /\ ipc = "idle"
    /\ newsArticles = <<>>
    /\ stockSymbols = <<>>
    /\ identified = <<>>

GroupIdle ==
    /\ gpc = "idle"
    /\ taggedArticles = <<>>
    /\ stockNewsMap = <<>>

RelevanceIdle ==
    /\ rpc = "idle"
    /\ fetchedArticle = <<>>
    /\ enrichedArticle = <<>>
    /\ relevantArticles = <<>>

EnrichIdle ==
    /\ epc = "idle"
    /\ stockData = <<>>
    /\ historicalData = <<>>
    /\ enriched = <<>>

CorrelateIdle ==
    /\ cpc = "idle"
    /\ quote = <<>>
    /\ newsData = <<>>
    /\ correlation = <<>>

RunIdle ==
    /\ invoked = <<>>
    /\ runError = "none"

NewsStoreIdle ==
    /\ toStore = <<>>
    /\ newsDocs = <<>>
    /\ generatorToday = "none"

IngestIdle ==
    /\ mpc = "idle"
    /\ runKind = "none"
    /\ attempted = <<>>
    /\ collected = <<>>
    /\ succeeded = <<>>

WatchIdle ==
    /\ userWatchlist = <<>>
    /\ wcalls = <<>>
    /\ writes = 0

OpsIdle == RunIdle /\ NewsStoreIdle /\ IngestIdle /\ WatchIdle

\* The components of the fetch layer are idle.
FetchIdle == BatchIdle /\ NewsIdle /\ SentimentIdle

ApiIdle ==
    /\ maxRetries = 0
    /\ initialDelay = 0
    /\ call = IdleCall
    /\ log = <<>>

\* apiRequest(config, maxRetries, initialDelay) has been called: axios(config) is
\* issued synchronously, which is the first attempt.
ApiInit ==
    /\ maxRetries \in 0..MaxRetries
    /\ initialDelay \in InitialDelays
    /\ call = StartCall(maxRetries, Ms(initialDelay))
    /\ log = <<[kind |-> "attempt", retries |-> maxRetries]>>
    /\ BatchIdle
    /\ NewsIdle
    /\ SentimentIdle
    /\ ProcessIdle /\ IdentifyIdle /\ GroupIdle
    /\ RelevanceIdle /\ EnrichIdle /\ CorrelateIdle
    /\ OpsIdle

\* The pending attempt settles.
ApiSettle ==
    /\ call.pc = "inflight"
    /\ \E o \in Outcomes :
         /\ call' = Settle(call, o)
         /\ log' = log \o <<[kind |-> "settle", outcome |-> o]>>
                       \o (IF Settle(call, o).pc = "sleeping"
                           THEN <<[kind |-> "sleep", delay |-> call.retryDelay]>>
                           ELSE <<>>)
    /\ UNCHANGED <<maxRetries, initialDelay, notApiVars>>

\* The backoff timer fires and the next attempt is issued.
ApiWake ==
    /\ call.pc = "sleeping"
    /\ call' = Wake(call)
    /\ log' = Append(log, [kind |-> "attempt", retries |-> Wake(call).retries])
    /\ UNCHANGED <<maxRetries, initialDelay, notApiVars>>

ApiNext == ApiSettle \/ ApiWake

SpecApi == ApiInit /\ [][ApiNext]_vars

(***************************************************************************)
(* Observations on the event log of the call                              *)
(***************************************************************************)
EventsOf(k) == SelectSeq(log, LAMBDA e : e.kind = k)
NumAttempts == Len(EventsOf("attempt"))
Sleeps == EventsOf("sleep")
Settles == EventsOf("settle")
\* The retryable errors, as the specification lists them.
Retryable(o) == o = NoResponse \/ o = 429 \/ o >= 500
AllAttemptsFailedRetryably ==
    /\ call.pc = "rejected"
    /\ \A k \in 1..Len(Settles) : Retryable(Settles[k].outcome)
CallSettled == call.pc \in {"resolved", "rejected"}

\* C1: one call of apiRequest makes at most 1 + maxRetries HTTP attempts whatever
\* the transport does, and exactly 1 + maxRetries when every attempt fails with
\* a retryable error.
C1_AttemptsBounded ==
    /\ NumAttempts <= 1 + maxRetries
    /\ AllAttemptsFailedRetryably => NumAttempts = 1 + maxRetries

C1_Witness ==
    /\ AllAttemptsFailedRetryably
    /\ maxRetries = 3
    /\ NumAttempts = 4

\* C2: a failed attempt is retried if and only if retries remain and the error is
\* retryable (no response, 429, >= 500); any other failure ends the call right
\* after that attempt: the call is rejected, with no sleep and no further attempt.
C2_RetryIffRetryable ==
    \A k \in 1..Len(log) :
        (log[k].kind = "settle" /\ log[k].outcome # OkStatus) =>
            IF log[k - 1].retries > 0 /\ Retryable(log[k].outcome)
            THEN /\ k < Len(log)
                 /\ log[k + 1].kind = "sleep"
                 /\ (k + 1 < Len(log) => log[k + 2].kind = "attempt")
                 /\ (k + 1 = Len(log) => call.pc = "sleeping")
            ELSE /\ k = Len(log)
                 /\ call.pc = "rejected"

\* A client error ended the call after its second attempt although retries remained.
C2_Witness ==
    /\ call.pc = "rejected"
    /\ maxRetries = 3
    /\ NumAttempts = 2
    /\ log[Len(log)].outcome = 404

\* C3: a call that makes n attempts sleeps exactly n - 1 times; the k-th sleep
\* lies between attempt k and attempt k+1 and lasts initialDelayMs x 1.5^(k-1);
\* there is no sleep before the first attempt nor after the final one.
C3_Backoff ==
    /\ log[1].kind = "attempt"
    /\ (call.pc # "sleeping") => Len(Sleeps) = NumAttempts - 1
    /\ CallSettled => log[Len(log)].kind = "settle"
    /\ \A x \in 1..Len(log) :
          log[x].kind = "sleep" =>
              /\ log[x - 1].kind = "settle"
              /\ log[x - 2].kind = "attempt"
              /\ (x < Len(log) => log[x + 1].kind = "attempt")
    /\ \A k \in 1..Len(Sleeps) :
          Sleeps[k].delay[1] * Pow(2, k - 1)
              = initialDelay * Pow(3, k - 1) * Sleeps[k].delay[2]

\* The default call has slept 1000, 1500 and 2250 ms and failed for good.
C3_Witness ==
    /\ call.pc = "rejected"
    /\ initialDelay = 1000
    /\ NumAttempts = 4
    /\ Len(Sleeps) = 3
    /\ RatEq(Sleeps[1].delay, Ms(1000))
    /\ RatEq(Sleeps[2].delay, Ms(1500))
    /\ RatEq(Sleeps[3].delay, Ms(2250))

\* C8: when apiRequest gives up, the error it raises is the error of the last
\* attempt made.
C8_LastErrorSurfaces ==
    call.pc = "rejected" => call.error = log[Len(log)].outcome

\* The call gave up after several attempts whose first and last errors differ.
C8_Witness ==
    /\ call.pc = "rejected"
    /\ NumAttempts >= 2
    /\ Settles[1].outcome # Settles[Len(Settles)].outcome
    /\ call.error = Settles[Len(Settles)].outcome

(***************************************************************************)
(* batchRequests                                                          *)
(***************************************************************************)
\* What the upstream produces during a batch run: a response, a server error
\* (retryable) or a client error (not retryable).
BatchOutcomes == {OkStatus, 503, 404}

\* apiRequest<T>(req): the default arguments retries = 3, retryDelay = 1000.
DefaultRetries == 3
DefaultRetryDelay == 1000

\* The value standing for null in the results; the response to the request at
\* position r is represented by r itself.
Null == 0

Requests == 1..nRequests

\* A variant whose slice takes one request more than batchSize.
BatchOneMore == {r \in Requests : i < r /\ r <= i + batchSize + 1}

\* requests.slice(i, i + batchSize), as 1-based positions.
Batch == {r \in Requests : i < r /\ r <= i + batchSize}

\* A variant without the catch handler: the rejection passes through.
NoCatchHandler(c, r) ==
    IF c.pc = "resolved" THEN [state |-> "fulfilled", value |-> r]
    ELSE IF c.pc = "rejected" THEN [state |-> "rejected", value |-> Null]
    ELSE [state |-> "pending", value |-> Null]

\* apiRequest(req).catch((error) => null): the promise handed to Promise.all.
CatchHandler(c, r) ==
    IF c.pc = "resolved" THEN [state |-> "fulfilled", value |-> r]
    ELSE IF c.pc = "rejected" THEN [state |-> "fulfilled", value |-> Null]
    ELSE [state |-> "pending", value |-> Null]

Mapped(r) == CatchHandler(calls[r], r)

\* A variant that goes on as soon as one promise of the group is fulfilled.
AnyFulfilled(rs) == \E r \in rs : Mapped(r).state = "fulfilled"

\* Promise.all resolves once every promise of the group is fulfilled ...
AllFulfilled(rs) == \A r \in rs : Mapped(r).state = "fulfilled"

\* ... and rejects as soon as one of them is rejected.
AnyRejected(rs) == \E r \in rs : Mapped(r).state = "rejected"

\* A variant that collects the values in reverse order.
BatchResultsReversed(size) == [k \in 1..size |-> Mapped(i + size + 1 - k).value]

\* The array Promise.all resolves with: the values in the order of the batch.
BatchResults(size) == [k \in 1..size |-> Mapped(i + k).value]

\* A variant that pauses after every group, the last one too.
MoreRequestsAlways == i < nRequests

\* if (i + batchSize < requests.length)
MoreRequests == i + batchSize < nRequests

\* A variant whose loop index is not advanced.
NextIndexSame == i

\* i += batchSize
NextIndex == i + batchSize

\* The frames of a group are dropped once their values have been collected.
Collected == [pc |-> "collected", retries |-> 0, retryDelay |-> Ms(0), error |-> NoError]

BatchInit ==
    /\ nRequests \in 0..MaxRequests
    /\ batchSize \in 1..MaxBatchSize
    /\ i = 0
    /\ bpc = "loop"
    /\ results = <<>>
    /\ calls = [r \in Requests |-> IdleCall]
    /\ outcome = [r \in Requests |-> "notStarted"]
    /\ groups = <<>>
    /\ pauses = 0
    /\ ApiIdle
    /\ NewsIdle
    /\ SentimentIdle
    /\ ProcessIdle /\ IdentifyIdle /\ GroupIdle
    /\ RelevanceIdle /\ EnrichIdle /\ CorrelateIdle
    /\ OpsIdle

\* Loop test true: slice the batch and map apiRequest over it; every call of the
\* group issues its first attempt before batchRequests suspends in Promise.all.
StartGroup ==
    /\ bpc = "loop"
    /\ i < nRequests
    /\ calls' = [r \in Requests |->
                    IF r \in Batch
                    THEN StartCall(DefaultRetries, Ms(DefaultRetryDelay))
                    ELSE calls[r]]
    /\ outcome' = [r \in Requests |-> IF r \in Batch THEN "running" ELSE outcome[r]]
    /\ groups' = Append(groups, Cardinality(Batch))
    /\ bpc' = "await"
    /\ UNCHANGED <<nRequests, batchSize, i, results, pauses, notBatchVars>>

\* Loop test false: return results.
Return ==
    /\ bpc = "loop"
    /\ i >= nRequests
    /\ bpc' = "done"
    /\ UNCHANGED <<nRequests, batchSize, i, results, calls, outcome, groups, pauses,
                   notBatchVars>>

\* The pending attempt of request r settles.
RequestSettles(r) ==
    /\ calls[r].pc = "inflight"
    /\ \E o \in BatchOutcomes :
         /\ calls' = [calls EXCEPT ![r] = Settle(calls[r], o)]
         /\ outcome' = [outcome EXCEPT ![r] =
                           CASE Settle(calls[r], o).pc = "resolved" -> "ok"
                             [] Settle(calls[r], o).pc = "rejected" -> "failed"
                             [] OTHER -> outcome[r]]
    /\ UNCHANGED <<nRequests, batchSize, i, bpc, results, groups, pauses, notBatchVars>>

\* The backoff timer of request r fires and its next attempt is issued.
RequestWakes(r) ==
    /\ calls[r].pc = "sleeping"
    /\ calls' = [calls EXCEPT ![r] = Wake(calls[r])]
    /\ UNCHANGED <<nRequests, batchSize, i, bpc, results, outcome, groups, pauses,
                   notBatchVars>>

\* await Promise.all(...) completes; results.push(...batchResults); then either
\* the pause starts or the loop goes on with i += batchSize.
AwaitAll ==
    /\ bpc = "await"
    /\ AnyRejected(Batch) \/ AllFulfilled(Batch)
    /\ IF AnyRejected(Batch)
       THEN /\ bpc' = "rejected"
            /\ UNCHANGED <<i, results, calls>>
       ELSE /\ results' = results \o BatchResults(Cardinality(Batch))
            /\ calls' = [r \in Requests |->
                            IF r \in Batch /\ calls[r].pc \in {"resolved", "rejected"}
                            THEN Collected
                            ELSE calls[r]]
            /\ IF MoreRequests
               THEN bpc' = "pause" /\ i' = i
               ELSE bpc' = "loop" /\ i' = NextIndex
    /\ UNCHANGED <<nRequests, batchSize, outcome, groups, pauses, notBatchVars>>

\* The inter-batch timer fires; i += batchSize.
PauseElapses ==
    /\ bpc = "pause"
    /\ pauses' = pauses + 1
    /\ i' = NextIndex
    /\ bpc' = "loop"
    /\ UNCHANGED <<nRequests, batchSize, results, calls, outcome, groups, notBatchVars>>

Next ==
    \/ StartGroup
    \/ Return
    \/ \E r \in Requests : RequestSettles(r)
    \/ \E r \in Requests : RequestWakes(r)
    \/ AwaitAll
    \/ PauseElapses

Spec == BatchInit /\ [][Next]_vars

\* The run under the premise that every HTTP attempt eventually settles: the
\* transport answers or times out, armed timers fire, and the event loop runs a
\* continuation that is ready. Whenever some step of the run is possible, a
\* step is eventually taken.
SpecTerminates == BatchInit /\ [][Next]_vars /\ WF_vars(Next)

(***************************************************************************)
(* Observations on a batchRequests run                                    *)
(***************************************************************************)
HasSettled(r) == outcome[r] \in {"ok", "failed"}
\* The group (1, 2, ...) the request at position r belongs to.
GroupOf(r) == ((r - 1) \div batchSize) + 1
Ceil(n, b) == (n + b - 1) \div b
ExpectedResult(r) == IF outcome[r] = "ok" THEN r ELSE Null

\* C4: the sequence batchRequests returns has as many entries as the input
\* list, and entry r is the outcome (response or null) of input request r,
\* in whatever order the concurrent requests of a group settle.
C4_ResultsAligned ==
    /\ Len(results) <= nRequests
    /\ bpc = "done" => Len(results) = nRequests
    /\ \A r \in 1..Len(results) :
          /\ HasSettled(r)
          /\ results[r] = ExpectedResult(r)

\* A finished run of two full groups whose results mix responses and nulls.
C4_Witness ==
    /\ bpc = "done"
    /\ nRequests = 4
    /\ batchSize = 2
    /\ results = <<Null, 2, 3, Null>>

\* C5: a request whose apiRequest call finally fails yields null at its own
\* index; the failure never rejects batchRequests, never stops the other
\* requests of its group, and never keeps a later group from being executed.
C5_FailureIsolated ==
    /\ bpc # "rejected"
    /\ \A r \in 1..Len(results) : outcome[r] = "failed" => results[r] = Null
    /\ \A r \in Requests :
          outcome[r] = "running" => calls[r].pc \in {"inflight", "sleeping"}
    /\ bpc = "done" =>
          /\ \A r \in Requests : HasSettled(r)
          /\ Len(results) = nRequests

\* The first request failed for good; its group neighbour and a request of a
\* later group succeeded and the run returned.
C5_Witness ==
    /\ bpc = "done"
    /\ batchSize >= 2
    /\ nRequests > batchSize
    /\ outcome[1] = "failed"
    /\ results[1] = Null
    /\ results[2] = 2
    /\ results[nRequests] = nRequests

\* C6: groups run strictly one after another: a request of a later group is
\* started only when every request of every earlier group has settled and the
\* pause after each earlier group has elapsed.
C6_GroupsSequential ==
    \A r \in Requests :
        outcome[r] # "notStarted" =>
            /\ pauses >= GroupOf(r) - 1
            /\ \A q \in Requests : GroupOf(q) < GroupOf(r) => HasSettled(q)

\* The second group is running after one pause, and within it the request at
\* the later position has settled before the one at the earlier position.
C6_Witness ==
    /\ bpc = "await"
    /\ batchSize >= 2
    /\ i = batchSize
    /\ pauses = 1
    /\ i + 2 <= nRequests
    /\ outcome[i + 1] = "running"
    /\ outcome[i + 2] = "ok"

\* C7: n requests with batchSize b form ceil(n/b) consecutive groups, each of
\* size b except a possibly smaller last one, with exactly
\* max(0, ceil(n/b) - 1) pauses: one after every group but the last.
C7_GroupsAndPauses ==
    /\ \A g \in 1..Len(groups) :
          groups[g] = IF g * batchSize <= nRequests
                      THEN batchSize
                      ELSE nRequests - (g - 1) * batchSize
    /\ Len(groups) <= Ceil(nRequests, batchSize)
    /\ bpc \in {"await", "pause"} => pauses = Len(groups) - 1
    /\ bpc = "done" =>
          /\ Len(groups) = Ceil(nRequests, batchSize)
          /\ pauses = IF nRequests = 0 THEN 0 ELSE Ceil(nRequests, batchSize) - 1

\* Seven requests in batches of three: groups of 3, 3 and 1 and two pauses.
C7_Witness ==
    /\ bpc = "done"
    /\ nRequests = 7
    /\ batchSize = 3
    /\ groups = <<3, 3, 1>>
    /\ pauses = 2

\* The requests whose apiRequest call has been started and has not settled yet,
\* whether an attempt is pending or the call sleeps before its next attempt.
Unsettled == {r \in Requests : outcome[r] = "running"}

\* C25: at every moment of a run the number of requests started and not yet
\* settled is at most batchSize, and they all belong to the same group, the
\* one batchRequests is awaiting.
C25_InFlightBoundedByBatchSize ==
    /\ Cardinality(Unsettled) <= batchSize
    /\ \A q, r \in Unsettled : GroupOf(q) = GroupOf(r)
    /\ Unsettled # {} => bpc = "await" /\ Unsettled \subseteq Batch

\* The second group of three is in flight at full width: one request waits for
\* its response, one sleeps before a retry, the third is on its last attempt.
C25_Witness ==
    /\ bpc = "await"
    /\ batchSize = 3
    /\ i = 3
    /\ Unsettled = {4, 5, 6}
    /\ calls[4].pc = "inflight"
    /\ calls[5].pc = "sleeping"
    /\ calls[6].retries = 0

\* The step starts the apiRequest call of request r.
Starts(r) ==
    /\ calls'[r] = StartCall(DefaultRetries, Ms(DefaultRetryDelay))
    /\ calls'[r] # calls[r]

\* The attempts the running call of request r has issued so far.
AttemptsOf(r) == DefaultRetries - calls[r].retries + 1

\* C29: provided every HTTP attempt eventually settles, a run of batchRequests
\* eventually returns; every request is started exactly once, no call issues
\* more than 4 attempts, and the loop index only changes by growing, from a
\* value below the list length, until it reaches that length.
C29_BatchRequestsTerminates ==
    /\ <>(bpc = "done")
    /\ [](bpc = "done" =>
             /\ i >= nRequests
             /\ \A r \in Requests : HasSettled(r))
    /\ [](\A r \in Requests :
             outcome[r] = "running" => AttemptsOf(r) \in 1..(DefaultRetries + 1))
    /\ [][(\A r \in Requests :
               Starts(r) => (outcome[r] = "notStarted" /\ outcome'[r] = "running"))
           /\ (i' # i => (i' > i /\ i < nRequests))]_vars

\* Five requests in batches of two have returned: the index has passed the
\* list length after three groups, and the last request failed for good.
C29_Witness ==
    /\ bpc = "done"
    /\ nRequests = 5
    /\ batchSize = 2
    /\ i = 6
    /\ pauses = 2
    /\ outcome[5] = "failed"
    /\ results[5] = Null

(***************************************************************************)
(* fetchNewsScheduledFunction: the fetch loop over the search keywords    *)
(***************************************************************************)
\* financialKeywords.length
NumKeywords == 7

Urls == {"https://x/a", "https://x/b", "https://x/c"}
Titles == {"Stock $AAPL win", "reach"}
Articles == [url : Urls, title : Titles]
NoArticle == [url |-> "", title |-> ""]

\* response.data.articles of one query: up to MaxPageSize articles in order.
Pages == UNION {[1..n -> Articles] : n \in 0..MaxPageSize}

\* A variant that takes two articles for the same only if their titles agree too.
SameArticleByUrlAndTitle(existingArticle, article) ==
    existingArticle.url = article.url /\ existingArticle.title = article.title

\* existingArticle.url === article.url
SameArticle(existingArticle, article) == existingArticle.url = article.url

\* allNewsArticles.some((existingArticle) => existingArticle.url === article.url)
IsCollected(all, article) == \E k \in DOMAIN all : SameArticle(all[k], article)

\* The body of the inner loop: push the article unless it is collected already.
AddArticle(all, article) ==
    IF ~IsCollected(all, article) THEN Append(all, article) ELSE all

\* for (const article of response.data.articles) { ... }
RECURSIVE AddArticles(_, _)
AddArticles(all, page) ==
    IF page = <<>>
    THEN all
    ELSE AddArticles(AddArticle(all, Head(page)), Tail(page))

\* What one page shows about its urls, told independently of the collected list.
PageHas(page, u) == \E k \in DOMAIN page : page[k].url = u
FirstIn(page, u) ==
    page[CHOOSE k \in DOMAIN page :
            page[k].url = u /\ \A j \in 1..(k - 1) : page[j].url # u]
LastIn(page, u) ==
    page[CHOOSE k \in DOMAIN page :
            page[k].url = u /\ \A j \in (k + 1)..Len(page) : page[j].url # u]
RECURSIVE NewUrls(_, _)
NewUrls(known, page) ==
    IF page = <<>>
    THEN <<>>
    ELSE IF Head(page).url \in known
         THEN NewUrls(known, Tail(page))
         ELSE <<Head(page).url>> \o NewUrls(known \cup {Head(page).url}, Tail(page))
KnownUrls == {u \in Urls : firstSeen[u] # NoArticle}

\* new Date().toISOString().split("T")[0]: the day of the run and the day
\* before it.
RunDay == "2024-05-02"
Days == {"2024-05-01", RunDay}

\* A document that does not exist, and the document an earlier run of the same
\* day has left.
NoDoc == [f \in {} |-> ""]
EarlierDoc == [generated |-> "earlier", date |-> RunDay, articles |-> <<>>]
Exists(doc) == DOMAIN doc # {}

NewsInit ==
    /\ npc = "fetch"
    /\ keyword = 0
    /\ allNewsArticles = <<>>
    /\ firstSeen = [u \in Urls |-> NoArticle]
    /\ urlOrder = <<>>
    /\ lastSeen = [u \in Urls |-> NoArticle]
    /\ ApiIdle
    /\ BatchIdle
    /\ SentimentIdle
    /\ ProcessIdle /\ IdentifyIdle /\ GroupIdle
    /\ RelevanceIdle /\ EnrichIdle /\ CorrelateIdle
    /\ IngestIdle /\ WatchIdle
    /\ RunIdle
    /\ toStore = <<>>
    /\ newsDocs \in {[d \in Days |-> NoDoc],
                     [d \in Days |-> IF d = RunDay THEN EarlierDoc ELSE NoDoc]}
    /\ generatorToday \in Days

\* The query for the next keyword answers with status "ok": its articles are
\* added to the collection, avoiding duplicates.
FetchOk ==
    /\ npc = "fetch"
    /\ keyword < NumKeywords
    /\ \E page \in Pages :
         /\ allNewsArticles' = AddArticles(allNewsArticles, page)
         /\ firstSeen' = [u \in Urls |->
                             IF firstSeen[u] = NoArticle /\ PageHas(page, u)
                             THEN FirstIn(page, u)
                             ELSE firstSeen[u]]
         /\ lastSeen' = [u \in Urls |->
                            IF PageHas(page, u) THEN LastIn(page, u) ELSE lastSeen[u]]
         /\ urlOrder' = urlOrder \o NewUrls(KnownUrls, page)
    /\ keyword' = keyword + 1
    /\ UNCHANGED <<npc, notNewsVars,
                   runVars, newsStoreVars>>

\* The query answers with another status: logged, and the loop continues.
FetchNotOk ==
    /\ npc = "fetch"
    /\ keyword < NumKeywords
    /\ keyword' = keyword + 1
    /\ UNCHANGED <<npc, allNewsArticles, firstSeen, urlOrder, lastSeen, notNewsVars,
                   runVars, newsStoreVars>>

\* A handler that logs the error of a query and goes on to score what it has
\* collected.
FetchThrowsGoesOn ==
    /\ npc = "fetch"
    /\ keyword < NumKeywords
    /\ npc' = "enrich"
    /\ runError' = "fetch"
    /\ UNCHANGED <<keyword, allNewsArticles, firstSeen, urlOrder, lastSeen, notNewsVars,
                   invoked, newsStoreVars>>

\* axios.get throws: the catch block of the handler logs and rethrows.
FetchThrows ==
    /\ npc = "fetch"
    /\ keyword < NumKeywords
    /\ npc' = "failed"
    /\ runError' = "fetch"
    /\ UNCHANGED <<keyword, allNewsArticles, firstSeen, urlOrder, lastSeen, notNewsVars,
                   invoked, newsStoreVars>>

\* Every keyword has been queried: the run goes on to score the articles.
FetchLoopDone ==
    /\ npc = "fetch"
    /\ keyword = NumKeywords
    /\ npc' = "enrich"
    /\ UNCHANGED <<keyword, allNewsArticles, firstSeen, urlOrder, lastSeen, notNewsVars,
                   runVars, newsStoreVars>>


Scores == (0 - ScoreResolution)..ScoreResolution

\* A variant whose comparisons are strict.
categorizeSentimentStrict(s) ==
    IF 10 * s < (-6) * ScoreResolution THEN "very negative"
    ELSE IF 10 * s < (-2) * ScoreResolution THEN "negative"
    ELSE IF 10 * s > 6 * ScoreResolution THEN "very positive"
    ELSE IF 10 * s > 2 * ScoreResolution THEN "positive"
    ELSE "neutral"

\* A variant whose neutral band is closed at -0.2: "negative" needs s < -0.2.
categorizeSentimentNeutralClosed(s) ==
    IF 10 * s <= (-6) * ScoreResolution THEN "very negative"
    ELSE IF 10 * s < (-2) * ScoreResolution THEN "negative"
    ELSE IF 10 * s >= 6 * ScoreResolution THEN "very positive"
    ELSE IF 10 * s >= 2 * ScoreResolution THEN "positive"
    ELSE "neutral"

categorizeSentiment(s) ==
    IF 10 * s <= (-6) * ScoreResolution THEN "very negative"
    ELSE IF 10 * s <= (-2) * ScoreResolution THEN "negative"
    ELSE IF 10 * s >= 6 * ScoreResolution THEN "very positive"
    ELSE IF 10 * s >= 2 * ScoreResolution THEN "positive"
    ELSE "neutral"

SentimentInit ==
    /\ score \in Scores
    /\ category = "none"
    /\ ApiIdle
    /\ BatchIdle
    /\ NewsIdle
    /\ ProcessIdle /\ IdentifyIdle /\ GroupIdle
    /\ RelevanceIdle /\ EnrichIdle /\ CorrelateIdle
    /\ OpsIdle

Categorize ==
    /\ category = "none"
    /\ category' = categorizeSentiment(score)
    /\ UNCHANGED <<score, notSentimentVars>>

SentimentNext == Categorize

SpecSentiment == SentimentInit /\ [][SentimentNext]_vars

Categories == {"very negative", "negative", "neutral", "positive", "very positive"}

\* C10: categorizeSentiment maps every score in [-1,1] to exactly one of the
\* five categories; each boundary value goes to the more extreme category
\* (-0.6 very negative, -0.2 negative, 0.2 positive, 0.6 very positive); scores
\* strictly between -0.2 and 0.2 are neutral, those in (-0.6,-0.2) negative,
\* those in (0.2,0.6) positive.
C10_CategoryPartition ==
    category # "none" =>
        /\ category \in Categories
        /\ category = "very negative" <=> 10 * score <= (-6) * ScoreResolution
        /\ category = "negative" <=>
              /\ (-6) * ScoreResolution < 10 * score
              /\ 10 * score <= (-2) * ScoreResolution
        /\ category = "neutral" <=>
              /\ (-2) * ScoreResolution < 10 * score
              /\ 10 * score < 2 * ScoreResolution
        /\ category = "positive" <=>
              /\ 2 * ScoreResolution <= 10 * score
              /\ 10 * score < 6 * ScoreResolution
        /\ category = "very positive" <=> 10 * score >= 6 * ScoreResolution

\* The score -0.2 itself has been categorized, as negative.
C10_Witness ==
    /\ 10 * score = (-2) * ScoreResolution
    /\ category = "negative"

\* C11 as stated: categorizeSentiment returns "neutral" for every score s with
\* -0.2 <= s < 0.2 (neutral interval closed at -0.2, open at 0.2).
C11_NeutralClosedAtLowerBound ==
    (/\ category # "none"
     /\ (-2) * ScoreResolution <= 10 * score
     /\ 10 * score < 2 * ScoreResolution) => category = "neutral"

\* C11 as amended: categorizeSentiment returns "neutral" exactly for the scores
\* s with -0.2 < s < 0.2; the neutral interval is open at both ends, and the
\* score -0.2 itself is "negative".
C11_NeutralOpenInterval ==
    category # "none" =>
        /\ ((-2) * ScoreResolution < 10 * score /\ 10 * score < 2 * ScoreResolution)
              => category = "neutral"
        /\ 10 * score = (-2) * ScoreResolution => category = "negative"
        /\ 10 * score = 2 * ScoreResolution => category = "positive"
        /\ category = "neutral" => 10 * score # (-2) * ScoreResolution

\* A score just above -0.2 has been categorized as neutral.
C11_Witness ==
    /\ 10 * score = (-2) * ScoreResolution + 10
    /\ category = "neutral"

(***************************************************************************)
(* JavaScript numbers: a finite value num/den (den > 0), NaN, or an        *)
(* infinity with its sign in num.                                         *)
(***************************************************************************)
Num(n, d) == [kind |-> "finite", num |-> n, den |-> d]
NaN == [kind |-> "nan", num |-> 0, den |-> 1]
Infinity(sign) == [kind |-> "inf", num |-> sign, den |-> 1]
Int2Num(n) == Num(n, 1)
Abs(n) == IF n < 0 THEN 0 - n ELSE n
Sign(n) == IF n < 0 THEN -1 ELSE IF n > 0 THEN 1 ELSE 0
IsFinite(x) == x.kind = "finite"
NumEq(x, y) ==
    /\ x.kind = y.kind
    /\ x.kind = "finite" => x.num * y.den = y.num * x.den
    /\ x.kind = "inf" => x.num = y.num
\* x <= y for finite x and y.
NumLeq(x, y) == x.num * y.den <= y.num * x.den

\* a / b for finite a and b: a zero divisor gives NaN or an infinity, it does
\* not throw.
JSDiv(a, b) ==
    IF b.num = 0
    THEN IF a.num = 0 THEN NaN ELSE Infinity(Sign(a.num))
    ELSE Num(a.num * b.den * Sign(b.num), a.den * Abs(b.num))

\* a * b, a + b and a - b for finite a and b.
JSMul(a, b) == Num(a.num * b.num, a.den * b.den)
JSAdd(a, b) == Num(a.num * b.den + b.num * a.den, a.den * b.den)
JSSub(a, b) == Num(a.num * b.den - b.num * a.den, a.den * b.den)

(***************************************************************************)
(* Texts are sequences of words separated by blanks.  The tables below    *)
(* give, for the words of the vocabulary, what the string operations of   *)
(* the code yield on them.                                                *)
(***************************************************************************)
Words == {"Stock", "MARKETS", "$AAPL", "win", "fraud", "reach", "cut"}
Texts == UNION {[1..n -> Words] : n \in 0..MaxWords}

\* The AFINN polarity of a lower-cased token (0: not in the lexicon).
Afinn(word) ==
    CASE word = "win" -> 4
      [] word = "fraud" -> -4
      [] word = "reach" -> 1
      [] word = "cut" -> -1
      [] OTHER -> 0

RECURSIVE SumPolarity(_)
SumPolarity(tokens) ==
    IF tokens = <<>> THEN 0 ELSE Afinn(Head(tokens)) + SumPolarity(Tail(tokens))

(***************************************************************************)
(* processSentiment                                                       *)
(***************************************************************************)
\* tokenizer.tokenize(text.toLowerCase()) || []: every word of the vocabulary
\* is one token.
Tokenize(words) == words

\* analyzer.getSentiment(tokens) of the natural library: the summed polarity
\* of the tokens divided by tokens.length.
GetSentiment(tokens) == JSDiv(Int2Num(SumPolarity(tokens)), Int2Num(Len(tokens)))

\* Math.max(-1, Math.min(1, rawScore * 2)); NaN passes through min and max.
Normalize(rawScore) ==
    IF rawScore.kind = "nan" THEN NaN
    ELSE IF rawScore.kind = "inf" THEN Int2Num(rawScore.num)
    ELSE IF 2 * rawScore.num > rawScore.den THEN Int2Num(1)
    ELSE IF 2 * rawScore.num < 0 - rawScore.den THEN Int2Num(-1)
    ELSE Num(2 * rawScore.num, rawScore.den)

\* The value processSentiment resolves with.  text.toLowerCase() throws when
\* text is no string; the catch block returns 0.
processSentiment(t) ==
    IF ~t.isString
    THEN Int2Num(0)
    ELSE Normalize(GetSentiment(Tokenize(t.words)))

TextInputs ==
    {[isString |-> TRUE, words |-> w] : w \in Texts}
        \cup {[isString |-> FALSE, words |-> <<>>]}

ProcessInit ==
    /\ ppc = "called"
    /\ text \in TextInputs
    /\ sentimentScore = NaN
    /\ ApiIdle /\ FetchIdle
    /\ IdentifyIdle /\ GroupIdle /\ RelevanceIdle /\ EnrichIdle /\ CorrelateIdle
    /\ OpsIdle

ProcessSentimentResolves ==
    /\ ppc = "called"
    /\ sentimentScore' = processSentiment(text)
    /\ ppc' = "resolved"
    /\ UNCHANGED <<text, notProcessVars>>

ProcessNext == ProcessSentimentResolves

SpecProcess == ProcessInit /\ [][ProcessNext]_vars

\* C12: for every input text, the empty text and token-less text included,
\* processSentiment resolves to a number s with -1 <= s <= 1, namely
\* min(1, max(-1, 2 x raw)), and to 0 when tokenizing or scoring throws.
C12_ScoreInRange ==
    ppc = "resolved" =>
        /\ IsFinite(sentimentScore)
        /\ NumLeq(Int2Num(-1), sentimentScore)
        /\ NumLeq(sentimentScore, Int2Num(1))
        /\ ~text.isString => NumEq(sentimentScore, Int2Num(0))

(***************************************************************************)
(* identifyStocksInNews                                                   *)
(***************************************************************************)
\* Words of titles and descriptions, in the case they are written in.
NewsWords ==
    {"AAPL", "$aapl", "GOOGL", "Apple", "pineapple", "Google", "Alphabet", "rally"}

\* word.toUpperCase()
ToUpperCase(word) ==
    CASE word = "$aapl" -> "$AAPL"
      [] word = "Apple" -> "APPLE"
      [] word = "pineapple" -> "PINEAPPLE"
      [] word = "Google" -> "GOOGLE"
      [] word = "Alphabet" -> "ALPHABET"
      [] word = "rally" -> "RALLY"
      [] OTHER -> word

\* new RegExp(`\\b${symbol}\\b`, "g").test(word) for an upper-cased word: the
\* symbol stands in the word with a word boundary on both sides.
RegexTestWord(symbol, word) ==
    \/ word = symbol
    \/ word = "$AAPL" /\ symbol = "AAPL"

\* word.includes(company) for an upper-cased word.
WordIncludes(word, company) ==
    \/ word = company
    \/ word = "PINEAPPLE" /\ company = "APPLE"

\* const companyNames = { ... }, as Object.entries lists it.
companyNames ==
    << <<"APPLE", "AAPL">>, <<"MICROSOFT", "MSFT">>, <<"AMAZON", "AMZN">>,
       <<"GOOGLE", "GOOGL">>, <<"ALPHABET", "GOOGL">>, <<"FACEBOOK", "META">>,
       <<"META PLATFORMS", "META">>, <<"TESLA", "TSLA">>, <<"NVIDIA", "NVDA">> >>

\* `${article.title} ${article.description}`.toUpperCase(), as its words.
SearchText(article) ==
    [k \in 1..(Len(article.title) + Len(article.description)) |->
        ToUpperCase((article.title \o article.description)[k])]

SymbolRegexTest(symbol, searchText) ==
    \E k \in DOMAIN searchText : RegexTestWord(symbol, searchText[k])

TextIncludes(searchText, company) ==
    \E k \in DOMAIN searchText : WordIncludes(searchText[k], company)

Contains(list, x) == \E k \in DOMAIN list : list[k] = x

\* stockSymbols.forEach((symbol) => { if (symbolRegex.test(searchText)) push })
RECURSIVE MentionedSymbols(_, _, _)
MentionedSymbols(mentionedStocks, symbols, searchText) ==
    IF symbols = <<>>
    THEN mentionedStocks
    ELSE MentionedSymbols(
             IF SymbolRegexTest(Head(symbols), searchText)
             THEN Append(mentionedStocks, Head(symbols))
             ELSE mentionedStocks,
             Tail(symbols), searchText)

\* Object.entries(companyNames).forEach(([company, symbol]) => { ... })
RECURSIVE MentionedCompanies(_, _, _)
MentionedCompanies(mentionedStocks, entries, searchText) ==
    IF entries = <<>>
    THEN mentionedStocks
    ELSE MentionedCompanies(
             IF /\ TextIncludes(searchText, Head(entries)[1])
                /\ ~Contains(mentionedStocks, Head(entries)[2])
             THEN Append(mentionedStocks, Head(entries)[2])
             ELSE mentionedStocks,
             Tail(entries), searchText)

\* articleCopy.tickers = mentionedStocks
WithTickers(article, tickers) ==
    [f \in DOMAIN article \cup {"tickers"} |->
        IF f = "tickers" THEN tickers ELSE article[f]]

\* A variant that sets the tickers field whether or not anything matched.
AttachTickersAlways(articleCopy, mentionedStocks) ==
    WithTickers(articleCopy, mentionedStocks)

\* if (mentionedStocks.length > 0) { articleCopy.tickers = mentionedStocks; }
AttachTickers(articleCopy, mentionedStocks) ==
    IF Len(mentionedStocks) > 0
    THEN WithTickers(articleCopy, mentionedStocks)
    ELSE articleCopy

\* The callback of newsArticles.map; articleCopy = { ...article }.
IdentifyArticle(article, symbols) ==
    AttachTickers(article,
        MentionedCompanies(MentionedSymbols(<<>>, symbols, SearchText(article)),
                           companyNames, SearchText(article)))

identifyStocksInNews(articles, symbols) ==
    [k \in DOMAIN articles |-> IdentifyArticle(articles[k], symbols)]

KnownSymbols == {"AAPL", "GOOGL"}
SymbolLists == UNION {[1..n -> KnownSymbols] : n \in 0..MaxSymbols}
ArticleTitles == UNION {[1..n -> NewsWords] : n \in 0..MaxTitleWords}
Descriptions == {<<>>, <<"rally">>, <<"AAPL">>}
\* Articles as fetched, and articles an earlier pass has tagged already.
UntaggedArticles == [title : ArticleTitles, description : Descriptions]
TaggedBefore ==
    {WithTickers(a, <<"TSLA">>) : a \in UntaggedArticles}
IdentifyInputs == UntaggedArticles \cup TaggedBefore

IdentifyInit ==
    /\ ipc = "called"
    /\ newsArticles \in {<<a>> : a \in IdentifyInputs}
    /\ stockSymbols \in SymbolLists
    /\ identified = <<>>
    /\ ApiIdle /\ FetchIdle
    /\ ProcessIdle /\ GroupIdle /\ RelevanceIdle /\ EnrichIdle /\ CorrelateIdle
    /\ OpsIdle

IdentifyReturns ==
    /\ ipc = "called"
    /\ identified' = identifyStocksInNews(newsArticles, stockSymbols)
    /\ ipc' = "returned"
    /\ UNCHANGED <<newsArticles, stockSymbols, notIdentifyVars>>

IdentifyNext == IdentifyReturns

SpecIdentify == IdentifyInit /\ [][IdentifyNext]_vars

(***************************************************************************)
(* Observations on a call of identifyStocksInNews                         *)
(***************************************************************************)
Count(list, x) == Cardinality({k \in DOMAIN list : list[k] = x})
HasTickers(article) == "tickers" \in DOMAIN article
\* The symbol is in the list passed in and stands as a whole word in the text.
SymbolOccurs(symbol, article) ==
    /\ Contains(stockSymbols, symbol)
    /\ SymbolRegexTest(symbol, SearchText(article))
CompanyOccurs(article) ==
    \E e \in DOMAIN companyNames : TextIncludes(SearchText(article), companyNames[e][1])
AnyMatch(article) ==
    \/ \E symbol \in KnownSymbols : SymbolOccurs(symbol, article)
    \/ CompanyOccurs(article)

\* C13: a symbol of the list that occurs as a whole word in the upper-cased
\* title+description is in the returned article's tickers exactly once.
C13_TickerExactlyOnce ==
    ipc = "returned" =>
        \A k \in DOMAIN newsArticles : \A symbol \in KnownSymbols :
            SymbolOccurs(symbol, newsArticles[k]) =>
                /\ HasTickers(identified[k])
                /\ Count(identified[k].tickers, symbol) = 1

\* C14 as stated: with no match the returned article has no tickers field at
\* all, and with at least one match its tickers is a non-empty list.
C14_NoTickersFieldWithoutMatch ==
    ipc = "returned" =>
        \A k \in DOMAIN newsArticles :
            /\ ~AnyMatch(newsArticles[k]) => ~HasTickers(identified[k])
            /\ AnyMatch(newsArticles[k]) =>
                   /\ HasTickers(identified[k])
                   /\ Len(identified[k].tickers) > 0

\* C14: with no match the returned article is a copy of the input article, so
\* it has a tickers field exactly when the input had one (and then the same
\* value); with at least one match its tickers is the non-empty list of the
\* matched symbols, never an empty list.
C14_TickersOnlyFromMatchOrInput ==
    ipc = "returned" =>
        \A k \in DOMAIN newsArticles :
            /\ ~AnyMatch(newsArticles[k]) => identified[k] = newsArticles[k]
            /\ AnyMatch(newsArticles[k]) =>
                   /\ HasTickers(identified[k])
                   /\ Len(identified[k].tickers) > 0
                   /\ \A symbol \in KnownSymbols :
                          SymbolOccurs(symbol, newsArticles[k]) =>
                              Contains(identified[k].tickers, symbol)
            /\ HasTickers(identified[k]) => Len(identified[k].tickers) > 0

C14_Witness ==
    /\ ipc = "returned"
    /\ stockSymbols # <<>>
    /\ newsArticles[1].title # <<>>
    /\ ~AnyMatch(newsArticles[1])
    /\ ~HasTickers(newsArticles[1])
    /\ ~HasTickers(identified[1])

(***************************************************************************)
(* groupNewsByStock                                                       *)
(***************************************************************************)
MaxGroupArticles == 3
MaxDate == 2

\* stockNewsMap[ticker].push(article), creating the collection when missing.
PushArticle(map, ticker, article) ==
    [t \in DOMAIN map \cup {ticker} |->
        IF t = ticker
        THEN Append(IF ticker \in DOMAIN map THEN map[ticker] ELSE <<>>, article)
        ELSE map[t]]

\* article.tickers.forEach((ticker) => { ... })
RECURSIVE PushToTickers(_, _, _)
PushToTickers(map, tickers, article) ==
    IF tickers = <<>>
    THEN map
    ELSE PushToTickers(PushArticle(map, Head(tickers), article), Tail(tickers), article)

\* newsArticles.forEach((article) => { if (article.tickers && ...length > 0) ... })
RECURSIVE CollectByTicker(_, _)
CollectByTicker(map, articles) ==
    IF articles = <<>>
    THEN map
    ELSE CollectByTicker(
             IF HasTickers(Head(articles)) /\ Len(Head(articles).tickers) > 0
             THEN PushToTickers(map, Head(articles).tickers, Head(articles))
             ELSE map,
             Tail(articles))

\* Insertion of x into a list sorted newest first, behind the entries that are
\* as new as x (Array.prototype.sort is stable).
RECURSIVE InsertNewestFirst(_, _)
InsertNewestFirst(sorted, x) ==
    IF sorted = <<>> THEN <<x>>
    ELSE IF Head(sorted).publishedAt >= x.publishedAt
         THEN <<Head(sorted)>> \o InsertNewestFirst(Tail(sorted), x)
         ELSE <<x>> \o sorted

\* list.sort((a, b) => new Date(b.publishedAt).getTime() - new Date(a.publishedAt).getTime())
RECURSIVE SortNewestFirst(_)
SortNewestFirst(list) ==
    IF list = <<>> THEN <<>>
    ELSE InsertNewestFirst(SortNewestFirst(SubSeq(list, 1, Len(list) - 1)), list[Len(list)])

groupNewsByStock(articles) ==
    [t \in DOMAIN CollectByTicker(<<>>, articles) |->
        SortNewestFirst(CollectByTicker(<<>>, articles)[t])]

\* The tickers identifyStocksInNews gives an article whose text names AAPL when
\* the symbol list names AAPL twice.
RepeatedTickers ==
    identifyStocksInNews(<<[title |-> <<>>, description |-> <<"AAPL">>]>>,
                         <<"AAPL", "AAPL">>)[1].tickers

TickerLists ==
    {<<>>, <<"AAPL">>, <<"AAPL", "GOOGL">>, <<"GOOGL", "AAPL">>, RepeatedTickers}

Dates == 1..MaxDate

\* An article is an object of its own: id tells the objects of one call apart.
GroupArticle(id, date, tickers) ==
    [id |-> id, publishedAt |-> date, tickers |-> tickers]
UntaggedGroupArticle(id, date) ==
    [id |-> id, publishedAt |-> date]

ArticlesAt(id) ==
    {GroupArticle(id, date, tickers) : date \in Dates, tickers \in TickerLists}
        \cup {UntaggedGroupArticle(id, date) : date \in Dates}

GroupInit ==
    /\ gpc = "called"
    /\ \E n \in 0..MaxGroupArticles : \E list \in [1..n -> ArticlesAt(0)] :
           taggedArticles = [k \in 1..n |-> [list[k] EXCEPT !.id = k]]
    /\ stockNewsMap = <<>>
    /\ ApiIdle /\ FetchIdle
    /\ ProcessIdle /\ IdentifyIdle /\ RelevanceIdle /\ EnrichIdle /\ CorrelateIdle
    /\ OpsIdle

GroupReturns ==
    /\ gpc = "called"
    /\ stockNewsMap' = groupNewsByStock(taggedArticles)
    /\ gpc' = "returned"
    /\ UNCHANGED <<taggedArticles, notGroupVars>>

GroupNext == GroupReturns

SpecGroup == GroupInit /\ [][GroupNext]_vars

(***************************************************************************)
(* Observations on a call of groupNewsByStock                             *)
(***************************************************************************)
GroupTickers == {"AAPL", "GOOGL"}
TickersOf(article) ==
    IF HasTickers(article)
    THEN {article.tickers[k] : k \in DOMAIN article.tickers}
    ELSE {}
\* How often the article with this id stands in the ticker's group.
TimesInGroup(id, ticker) ==
    IF ticker \in DOMAIN stockNewsMap
    THEN Cardinality({k \in DOMAIN stockNewsMap[ticker] : stockNewsMap[ticker][k].id = id})
    ELSE 0
NoRepeatedTicker(article) ==
    \A ticker \in TickersOf(article) : Count(article.tickers, ticker) = 1

\* C15: an article tagged with N symbols is in exactly those N groups, once in
\* each; an article without tickers is in no group; no group is empty; each
\* group is sorted by publishedAt, newest first.
C15_GroupedOnceSortedNewestFirst ==
    gpc = "returned" =>
        /\ \A id \in DOMAIN taggedArticles : \A ticker \in GroupTickers :
               TimesInGroup(id, ticker) =
                   IF ticker \in TickersOf(taggedArticles[id]) THEN 1 ELSE 0
        /\ \A ticker \in DOMAIN stockNewsMap :
               /\ ticker \in GroupTickers
               /\ Len(stockNewsMap[ticker]) > 0
               /\ \A a, b \in DOMAIN stockNewsMap[ticker] :
                      a < b => stockNewsMap[ticker][a].publishedAt
                                   >= stockNewsMap[ticker][b].publishedAt

(***************************************************************************)
(* The news run's enrichment and relevance filter                         *)
(***************************************************************************)
\* word.toLowerCase().includes(needle) for the words of the vocabulary.
LowerCaseIncludes(word, needle) ==
    \/ word = "Stock" /\ needle = "stock"
    \/ word = "stock" /\ needle = "stock"
    \/ word = "MARKETS" /\ needle = "market"

\* article.title.toLowerCase().includes(needle)
TitleIncludes(title, needle) ==
    \E k \in DOMAIN title : LowerCaseIncludes(title[k], needle)

\* /\$([A-Z]{1,5})\b/ on one word: a dollar sign followed by one to five
\* capital letters that end the word.
TickerRegexMatches(word) == word \in {"$AAPL", "$TSLA"}
TickerRegexGroup(word) == IF word = "$AAPL" THEN "AAPL" ELSE "TSLA"

\* [...new Set(Array.from(content.matchAll(tickerRegex), (m) => m[1]))]
RECURSIVE MatchAllTickers(_, _)
MatchAllTickers(found, content) ==
    IF content = <<>>
    THEN found
    ELSE MatchAllTickers(
             IF /\ TickerRegexMatches(Head(content))
                /\ ~Contains(found, TickerRegexGroup(Head(content)))
             THEN Append(found, TickerRegexGroup(Head(content)))
             ELSE found,
             Tail(content))

\* article.title + " " + article.description + " " + (article.content || "")
ArticleContent(article) == article.title \o article.description \o article.content

Tenths(n) == Num(n, 10)

\* (title has "stock" ? 0.3 : 0) + (title has "market" ? 0.2 : 0) + (tickers.length > 0 ? 0.5 : 0)
RelevanceScore(article, tickers) ==
    JSAdd(JSAdd(IF TitleIncludes(article.title, "stock") THEN Tenths(3) ELSE Int2Num(0),
                IF TitleIncludes(article.title, "market") THEN Tenths(2) ELSE Int2Num(0)),
          IF Len(tickers) > 0 THEN Tenths(5) ELSE Int2Num(0))

\* The callback of allNewsArticles.map: the article with sentimentScore,
\* tickers (undefined when none was found) and relevanceScore.
EnrichedArticle(article) ==
    [title |-> article.title,
     description |-> article.description,
     content |-> article.content,
     sentimentScore |->
         processSentiment([isString |-> TRUE,
                           words |-> article.title \o article.description]),
     tickers |-> [defined |-> Len(MatchAllTickers(<<>>, ArticleContent(article))) > 0,
                  list |-> MatchAllTickers(<<>>, ArticleContent(article))],
     relevanceScore |->
         RelevanceScore(article, MatchAllTickers(<<>>, ArticleContent(article)))]

\* A filter that keeps only scores above the threshold.
IsRelevantAboveThreshold(article) ==
    \/ /\ article.relevanceScore.num # 0
       /\ ~NumLeq(article.relevanceScore, Tenths(2))
    \/ article.tickers.defined

\* (article.relevanceScore && article.relevanceScore >= 0.2) || article.tickers
IsRelevant(article) ==
    \/ /\ article.relevanceScore.num # 0
       /\ NumLeq(Tenths(2), article.relevanceScore)
    \/ article.tickers.defined

FetchedDescriptions == {<<>>, <<"$AAPL">>, <<"AAPL">>, <<"stock">>}
FetchedContents == {<<>>, <<"$TSLA">>}
FetchedArticles ==
    [title : Texts, description : FetchedDescriptions, content : FetchedContents]

RelevanceInit ==
    /\ rpc = "fetched"
    /\ fetchedArticle \in FetchedArticles
    /\ enrichedArticle = <<>>
    /\ relevantArticles = <<>>
    /\ ApiIdle /\ FetchIdle
    /\ ProcessIdle /\ IdentifyIdle /\ GroupIdle /\ EnrichIdle /\ CorrelateIdle
    /\ OpsIdle

EnrichArticle ==
    /\ rpc = "fetched"
    /\ enrichedArticle' = EnrichedArticle(fetchedArticle)
    /\ rpc' = "enriched"
    /\ UNCHANGED <<fetchedArticle, relevantArticles, notRelevanceVars>>

FilterRelevant ==
    /\ rpc = "enriched"
    /\ relevantArticles' =
           IF IsRelevant(enrichedArticle) THEN <<enrichedArticle>> ELSE <<>>
    /\ rpc' = "filtered"
    /\ UNCHANGED <<fetchedArticle, enrichedArticle, notRelevanceVars>>

RelevanceNext == EnrichArticle \/ FilterRelevant

SpecRelevance == RelevanceInit /\ [][RelevanceNext]_vars

(***************************************************************************)
(* Observations on the relevance filter                                   *)
(***************************************************************************)
TitleHas(needle) == TitleIncludes(fetchedArticle.title, needle)
TickerFound ==
    \E k \in DOMAIN ArticleContent(fetchedArticle) :
        TickerRegexMatches(ArticleContent(fetchedArticle)[k])
Indicator(b) == IF b THEN 1 ELSE 0
Kept == relevantArticles # <<>>

\* C16: relevanceScore = 0.3*[title has "stock"] + 0.2*[title has "market"]
\* + 0.5*[a ticker was found], a value in [0,1]; the article is kept iff
\* relevanceScore >= 0.2 or it has a ticker, that is iff its title has "stock"
\* or "market" or a ticker was found.
C16_RelevanceScoreAndFilter ==
    /\ rpc \in {"enriched", "filtered"} =>
           /\ NumEq(enrichedArticle.relevanceScore,
                    Tenths(3 * Indicator(TitleHas("stock"))
                             + 2 * Indicator(TitleHas("market"))
                             + 5 * Indicator(TickerFound)))
           /\ NumLeq(Int2Num(0), enrichedArticle.relevanceScore)
           /\ NumLeq(enrichedArticle.relevanceScore, Int2Num(1))
           /\ enrichedArticle.tickers.defined <=> TickerFound
    /\ rpc = "filtered" =>
           /\ Kept <=> \/ NumLeq(Tenths(2), enrichedArticle.relevanceScore)
                       \/ enrichedArticle.tickers.defined
           /\ Kept <=> (TitleHas("stock") \/ TitleHas("market") \/ TickerFound)
           /\ Kept => relevantArticles = <<enrichedArticle>>

C16_Witness ==
    /\ rpc = "filtered"
    /\ TitleHas("market") /\ ~TitleHas("stock") /\ ~TickerFound
    /\ NumEq(enrichedArticle.relevanceScore, Tenths(2))
    /\ Kept

(***************************************************************************)
(* enrichStockData                                                        *)
(***************************************************************************)
\* The bar of historicalData that the momentum is measured against.
MomentumOffset == 10

BaseFieldNames == {"symbol", "price", "change", "changePercent", "volume"}

\* { symbol: stockData.symbol, price: stockData.price, ... }
BaseFields(data) ==
    [symbol |-> data.symbol, price |-> data.price, change |-> data.change,
     changePercent |-> data.changePercent, volume |-> data.volume]

\* historicalData.map((day) => day.volume).reduce((sum, vol) => sum + vol, 0)
RECURSIVE SumVolume(_)
SumVolume(bars) ==
    IF bars = <<>> THEN 0 ELSE Head(bars).volume + SumVolume(Tail(bars))

\* historicalData.map((day) => day.close).reduce((sum, price) => sum + price, 0)
RECURSIVE SumClose(_)
SumClose(bars) ==
    IF bars = <<>> THEN 0 ELSE Head(bars).close + SumClose(Tail(bars))

AverageVolume(bars) == JSDiv(Int2Num(SumVolume(bars)), Int2Num(Len(bars)))
AveragePrice(bars) == JSDiv(Int2Num(SumClose(bars)), Int2Num(Len(bars)))

\* The momentum measured against the tenth bar from the start.
Price10DaysAgoFromStart(bars) == bars[MomentumOffset].close

\* historicalData[historicalData.length - 10].close; sequences count from 1.
Price10DaysAgo(bars) == bars[Len(bars) - MomentumOffset + 1].close

\* (priceNow - price10DaysAgo) / price10DaysAgo
Momentum(data, bars) ==
    JSDiv(Int2Num(data.price - Price10DaysAgo(bars)), Int2Num(Price10DaysAgo(bars)))

\* enriched.averageVolume, enriched.volumeRatio, enriched.relativeStrength
VolumeAndStrength(data, bars) ==
    [averageVolume |-> AverageVolume(bars),
     volumeRatio |-> JSDiv(Int2Num(data.volume), AverageVolume(bars)),
     relativeStrength |-> JSDiv(Int2Num(data.price), AveragePrice(bars))]

\* The try block; with numbers in every field none of its statements throws
\* (a division by zero yields Infinity or NaN), so the catch block is not
\* entered.
enrichStockData(data, history) ==
    IF history.present /\ Len(history.bars) > 0
    THEN IF Len(history.bars) >= MomentumOffset
         THEN BaseFields(data) @@ VolumeAndStrength(data, history.bars)
                  @@ [momentum |-> Momentum(data, history.bars)]
         ELSE BaseFields(data) @@ VolumeAndStrength(data, history.bars)
    ELSE BaseFields(data)

Bars == {[volume |-> 0, close |-> 0], [volume |-> 4, close |-> 2]}
Histories ==
    {[present |-> TRUE, bars |-> b] :
        b \in UNION {[1..n -> Bars] : n \in 0..MaxHistory}}
        \cup {[present |-> FALSE, bars |-> <<>>]}
Quotes ==
    [symbol : {"AAPL"}, price : {0, 3}, change : {-1}, changePercent : {-2},
     volume : {0, 5}]

\* A caller that has no quote for the symbol passes null.
NullQuote == [f \in {} |-> 0]
IsNull(data) == DOMAIN data = {}

\* `stockData.symbol`, the first statement of the try block, throws a TypeError
\* when stockData is null; nothing else in the block throws.
TryThrows(data) == IsNull(data)

\* The catch block logs and builds the base record from stockData again:
\* `stockData.symbol` throws a second time when stockData is null, and that
\* error leaves the function.
CatchThrows(data) == IsNull(data)

EnrichInit ==
    /\ epc = "called"
    /\ stockData \in Quotes \cup {NullQuote}
    /\ historicalData \in Histories
    /\ enriched = <<>>
    /\ ApiIdle /\ FetchIdle
    /\ ProcessIdle /\ IdentifyIdle /\ GroupIdle /\ RelevanceIdle /\ CorrelateIdle
    /\ OpsIdle

EnrichReturns ==
    /\ epc = "called"
    /\ ~TryThrows(stockData)
    /\ enriched' = enrichStockData(stockData, historicalData)
    /\ epc' = "returned"
    /\ UNCHANGED <<stockData, historicalData, notEnrichVars>>

\* The try block throws and the catch block throws again: the call ends with
\* an exception in its caller.
EnrichRaises ==
    /\ epc = "called"
    /\ TryThrows(stockData)
    /\ CatchThrows(stockData)
    /\ epc' = "threw"
    /\ UNCHANGED <<enriched, stockData, historicalData, notEnrichVars>>

EnrichNext == EnrichReturns \/ EnrichRaises

SpecEnrich == EnrichInit /\ [][EnrichNext]_vars

(***************************************************************************)
(* Observations on a call of enrichStockData                              *)
(***************************************************************************)
HistoryLength == Len(historicalData.bars)
NonEmptyHistory == historicalData.present /\ HistoryLength > 0
\* The close of the bar at index length-10 of the code's array.
CloseAtLengthMinus10 == historicalData.bars[HistoryLength - 9].close
BaseFieldsUnchanged ==
    \A f \in BaseFieldNames : f \in DOMAIN enriched /\ enriched[f] = stockData[f]

\* C17: only the base fields without history or with an empty one; with a
\* non-empty history averageVolume, volumeRatio and relativeStrength are added;
\* momentum is added iff the history has at least 10 bars, and is (price - c)/c
\* with c the close of the bar at index length-10.
C17_DerivedFieldsByHistoryLength ==
    epc = "returned" =>
        /\ BaseFieldsUnchanged
        /\ ~NonEmptyHistory => DOMAIN enriched = BaseFieldNames
        /\ NonEmptyHistory =>
               /\ {"averageVolume", "volumeRatio", "relativeStrength"} \subseteq DOMAIN enriched
               /\ enriched.averageVolume.num * HistoryLength
                      = SumVolume(historicalData.bars) * enriched.averageVolume.den
        /\ "momentum" \in DOMAIN enriched <=> (NonEmptyHistory /\ HistoryLength >= 10)
        /\ "momentum" \in DOMAIN enriched =>
               IF CloseAtLengthMinus10 # 0
               THEN /\ IsFinite(enriched.momentum)
                    /\ enriched.momentum.num * CloseAtLengthMinus10
                           = (stockData.price - CloseAtLengthMinus10) * enriched.momentum.den
               ELSE ~IsFinite(enriched.momentum)

C17_Witness ==
    /\ epc = "returned"
    /\ HistoryLength = 11
    /\ CloseAtLengthMinus10 = 2
    /\ historicalData.bars[10].close = 0
    /\ historicalData.bars[11].close = 0
    /\ stockData.price = 3
    /\ NumEq(enriched.momentum, Num(1, 2))

\* C18: when the mean volume, the mean close or the close at index length-10
\* is zero, the result is exactly the base fields, no derived field present.
C18_ZeroDivisorFallsBackToBase ==
    (/\ epc = "returned"
     /\ NonEmptyHistory
     /\ \/ SumVolume(historicalData.bars) = 0
        \/ SumClose(historicalData.bars) = 0
        \/ HistoryLength >= 10 /\ CloseAtLengthMinus10 = 0)
        => /\ DOMAIN enriched = BaseFieldNames
           /\ BaseFieldsUnchanged

\* C24: a call of enrichStockData with a malformed input (a null quote) does
\* not end with an exception in its caller.
C24_NoExceptionPropagates == epc # "threw"

(***************************************************************************)
(* correlateNewsWithMarketMovements                                       *)
(***************************************************************************)
\* significantArticles.slice(0, 5)
SliceLimit == 5

RECURSIVE Gcd(_, _)
Gcd(a, b) == IF b = 0 THEN a ELSE Gcd(b, a % b)
\* The same finite value in lowest terms.
Reduce(x) ==
    IF x.num = 0 THEN Int2Num(0)
    ELSE Num(x.num \div Gcd(Abs(x.num), x.den), x.den \div Gcd(Abs(x.num), x.den))

\* Math.abs(x) for a finite x.
MathAbs(x) == Num(Abs(x.num), x.den)

\* word.includes(symbol) for the words of the vocabulary.
WordIncludesSymbol(word, symbol) ==
    \/ word = symbol
    \/ word = "$AAPL" /\ symbol = "AAPL"

\* title.includes(symbol), description.includes(symbol)
IncludesSymbol(words, symbol) ==
    \E k \in DOMAIN words : WordIncludesSymbol(words[k], symbol)

\* The callback of newsData.filter.
IsRelevantTo(article, symbol) ==
    \/ article.tickers.defined /\ Contains(article.tickers.list, symbol)
    \/ IncludesSymbol(article.title, symbol)
    \/ article.description.present /\ IncludesSymbol(article.description.words, symbol)

RECURSIVE Filter(_, _)
Filter(articles, symbol) ==
    IF articles = <<>> THEN <<>>
    ELSE IF IsRelevantTo(Head(articles), symbol)
         THEN <<Head(articles)>> \o Filter(Tail(articles), symbol)
         ELSE Filter(Tail(articles), symbol)

\* article.sentimentScore || 0
ArticleSentiment(article) ==
    IF article.sentimentScore.defined /\ article.sentimentScore.value.num # 0
    THEN article.sentimentScore.value
    ELSE Int2Num(0)

\* An alignment that also counts a flat price or a neutral article.
SentimentPriceAlignmentOrFlat(articleSentiment, change) ==
    \/ articleSentiment.num >= 0 /\ change.num >= 0
    \/ articleSentiment.num <= 0 /\ change.num <= 0

\* (articleSentiment > 0 && stockData.change > 0) ||
\* (articleSentiment < 0 && stockData.change < 0)
SentimentPriceAlignment(articleSentiment, change) ==
    \/ articleSentiment.num > 0 /\ change.num > 0
    \/ articleSentiment.num < 0 /\ change.num < 0

\* The callback of relevantNews.map.
Significant(article, data) ==
    [article |-> article,
     possibleImpact |->
         IF SentimentPriceAlignment(ArticleSentiment(article), data.change)
         THEN "aligned" ELSE "contrary",
     impactScore |->
         Reduce(JSMul(MathAbs(ArticleSentiment(article)), MathAbs(data.change)))]

RECURSIVE MapSignificant(_, _)
MapSignificant(relevantNews, data) ==
    IF relevantNews = <<>> THEN <<>>
    ELSE <<Significant(Head(relevantNews), data)>> \o MapSignificant(Tail(relevantNews), data)

\* relevantNews, sorted newest first, mapped to the significant articles.
SignificantArticles(data, news) ==
    MapSignificant(SortNewestFirst(Filter(news, data.symbol)), data)

\* significantArticles.reduce((sum, article) => sum + article.impactScore, 0)
RECURSIVE SumImpact(_)
SumImpact(significant) ==
    IF significant = <<>> THEN Int2Num(0)
    ELSE Reduce(JSAdd(SumImpact(SubSeq(significant, 1, Len(significant) - 1)),
                      significant[Len(significant)].impactScore))

\* list.slice(0, 5)
Slice(list) == SubSeq(list, 1, IF Len(list) < SliceLimit THEN Len(list) ELSE SliceLimit)

\* A mean taken over the returned articles only.
NewsImpactOfReturned(significant) ==
    IF Len(significant) > 0
    THEN Reduce(JSDiv(SumImpact(Slice(significant)), Int2Num(Len(Slice(significant)))))
    ELSE Int2Num(0)

\* significantArticles.length > 0 ? sum / significantArticles.length : 0
NewsImpact(significant) ==
    IF Len(significant) > 0
    THEN Reduce(JSDiv(SumImpact(significant), Int2Num(Len(significant))))
    ELSE Int2Num(0)

correlateNewsWithMarketMovements(data, news) ==
    LET significantArticles == SignificantArticles(data, news)
    IN [newsImpact |-> NewsImpact(significantArticles),
        significantArticles |-> Slice(significantArticles)]

Undefined == [defined |-> FALSE, value |-> Int2Num(0)]
Defined(x) == [defined |-> TRUE, value |-> x]
NoTickers == [defined |-> FALSE, list |-> <<>>]
TickersList(l) == [defined |-> TRUE, list |-> l]
NoDescription == [present |-> FALSE, words |-> <<>>]
Description(w) == [present |-> TRUE, words |-> w]

\* The kinds of stored article: they name AAPL in tickers, title or
\* description, two of them name GOOGL as well; their sentimentScore is
\* negative, positive, zero or missing.
ArticleKinds ==
    {[title |-> <<"rally">>, description |-> Description(<<"rally">>),
      tickers |-> TickersList(<<"GOOGL", "AAPL">>), sentimentScore |-> Defined(Num(-2, 5))],
     [title |-> <<"$AAPL", "rally">>, description |-> NoDescription,
      tickers |-> NoTickers, sentimentScore |-> Defined(Int2Num(1))],
     [title |-> <<"rally">>, description |-> Description(<<"AAPL">>),
      tickers |-> NoTickers, sentimentScore |-> Defined(Int2Num(0))],
     [title |-> <<"GOOGL">>, description |-> NoDescription,
      tickers |-> TickersList(<<"AAPL">>), sentimentScore |-> Undefined]}

\* The stored article of the kind, with its place in newsData as its identity.
StoredArticle(kind, id, date) ==
    [id |-> id, publishedAt |-> date, title |-> kind.title,
     description |-> kind.description, tickers |-> kind.tickers,
     sentimentScore |-> kind.sentimentScore]

\* newsData: stored articles of the kinds chosen, the oldest first.
NewsList(kinds) ==
    [k \in DOMAIN kinds |-> StoredArticle(kinds[k], k, k)]

Changes == {Num(-3, 2), Int2Num(0), Int2Num(2)}
StockQuotes == [symbol : {"AAPL", "GOOGL"}, change : Changes]

CorrelateInit ==
    /\ cpc = "called"
    /\ quote \in StockQuotes
    /\ \E n \in 0..MaxNews : \E kinds \in [1..n -> ArticleKinds] :
           newsData = NewsList(kinds)
    /\ correlation = <<>>
    /\ ApiIdle /\ FetchIdle
    /\ ProcessIdle /\ IdentifyIdle /\ GroupIdle /\ RelevanceIdle /\ EnrichIdle
    /\ OpsIdle

CorrelateReturns ==
    /\ cpc = "called"
    /\ correlation' = correlateNewsWithMarketMovements(quote, newsData)
    /\ cpc' = "returned"
    /\ UNCHANGED <<quote, newsData, notCorrelateVars>>

CorrelateNext == CorrelateReturns

SpecCorrelate == CorrelateInit /\ [][CorrelateNext]_vars

(***************************************************************************)
(* Observations on a call of correlateNewsWithMarketMovements             *)
(***************************************************************************)
\* The places in newsData of the articles related to the quote's symbol.
RelevantIds ==
    {k \in DOMAIN newsData :
        \/ newsData[k].tickers.defined /\ Contains(newsData[k].tickers.list, quote.symbol)
        \/ IncludesSymbol(newsData[k].title, quote.symbol)
        \/ /\ newsData[k].description.present
           /\ IncludesSymbol(newsData[k].description.words, quote.symbol)}
\* The sentimentScore of the article, zero when it has none.
ScoreOf(article) ==
    IF article.sentimentScore.defined THEN article.sentimentScore.value ELSE Int2Num(0)
\* |sentimentScore| x |change| of the article at place k.
ImpactOf(k) == JSMul(MathAbs(ScoreOf(newsData[k])), MathAbs(quote.change))
RECURSIVE SumOver(_)
SumOver(ids) ==
    IF ids = {} THEN Int2Num(0)
    ELSE LET k == CHOOSE x \in ids : TRUE
         IN Reduce(JSAdd(SumOver(ids \ {k}), ImpactOf(k)))
Returned == correlation.significantArticles

C20_NewsImpactIsMeanOverAllRelevant ==
    cpc = "returned" =>
        /\ RelevantIds = {} => NumEq(correlation.newsImpact, Int2Num(0))
        /\ RelevantIds # {} =>
               /\ IsFinite(correlation.newsImpact)
               /\ NumEq(JSMul(correlation.newsImpact, Int2Num(Cardinality(RelevantIds))),
                        SumOver(RelevantIds))
        /\ Len(Returned) = IF Cardinality(RelevantIds) < 5 THEN Cardinality(RelevantIds) ELSE 5

C20_Witness ==
    /\ cpc = "returned"
    /\ Cardinality(RelevantIds) > 5
    /\ Len(Returned) = 5
    /\ ~NumEq(JSMul(correlation.newsImpact, Int2Num(5)), SumImpact(Returned))

ReturnedIds == {Returned[k].article.id : k \in DOMAIN Returned}
\* x < y for finite x and y.
NumLess(x, y) == x.num * y.den < y.num * x.den

\* C21: at most 5 articles are returned, and with more than 5 relevant
\* articles no omitted one has a strictly larger impactScore than a returned
\* one.
C21_ReturnedAreHighestImpact ==
    cpc = "returned" =>
        /\ Len(Returned) <= 5
        /\ Cardinality(RelevantIds) > 5 =>
               \A omitted \in RelevantIds \ ReturnedIds : \A k \in DOMAIN Returned :
                   ~NumLess(Returned[k].impactScore, ImpactOf(omitted))

(***************************************************************************)
(* fetchNewsScheduledFunction: scoring, filtering and the storage steps    *)
(***************************************************************************)
\* The words of a fetched title.
TitleWords(title) ==
    IF title = "Stock $AAPL win" THEN <<"Stock", "$AAPL", "win">> ELSE <<"reach">>

\* The callback of allNewsArticles.map applied to a fetched article; the
\* articles of the fetch loop carry an empty description and no content.
EnrichedNews(article) ==
    [url |-> article.url,
     title |-> article.title,
     sentimentScore |->
         EnrichedArticle([title |-> TitleWords(article.title),
                          description |-> <<>>, content |-> <<>>]).sentimentScore,
     tickers |->
         EnrichedArticle([title |-> TitleWords(article.title),
                          description |-> <<>>, content |-> <<>>]).tickers,
     relevanceScore |->
         EnrichedArticle([title |-> TitleWords(article.title),
                          description |-> <<>>, content |-> <<>>]).relevanceScore]

\* enrichedArticles.filter(...) over allNewsArticles.map(...)
RECURSIVE RelevantNews(_)
RelevantNews(all) ==
    IF all = <<>> THEN <<>>
    ELSE IF IsRelevant(EnrichedNews(Head(all)))
         THEN <<EnrichedNews(Head(all))>> \o RelevantNews(Tail(all))
         ELSE RelevantNews(Tail(all))

\* docRef.set(data, { merge: true }): the fields given replace those of the
\* document, the other fields of the document stay.
SetMerge(doc, data) ==
    [f \in DOMAIN doc \cup DOMAIN data |-> IF f \in DOMAIN data THEN data[f] ELSE doc[f]]

\* docRef.set(data): the document becomes the data.
SetPlain(doc, data) == data

\* A generator that merges into the document as storeNewsData does.
WriteGeneratedMerging(doc, data) == SetMerge(doc, data)

\* generateNewsJsonFile's batch.set(newsRef, { ... }), without merge.
WriteGenerated(doc, data) == SetPlain(doc, data)

\* The data storeNewsData sets on news/<today>.
StoredNews(articles) ==
    [date |-> RunDay, articles |-> articles, updatedAt |-> "server timestamp"]

\* article.sentimentScore || 0
SentimentOrZero(x) == IF x.kind = "nan" \/ x.num = 0 THEN Int2Num(0) ELSE x

\* The callback of newsArticles.map in generateNewsJsonFile (description,
\* source and publishedAt are not carried by the articles of the model).
Projected(article) ==
    [title |-> article.title,
     url |-> article.url,
     sentiment |-> SentimentOrZero(article.sentimentScore),
     tickers |-> IF article.tickers.defined THEN article.tickers.list ELSE <<>>]

\* The data generateNewsJsonFile sets on news/<today>.
GeneratedNews(articles) ==
    [generated |-> "now", date |-> generatorToday,
     articles |-> [k \in DOMAIN articles |-> Projected(articles[k])]]

\* A handler that logs the error of a storage step and goes on.
NextStepSwallowingErrors(step, committed) ==
    IF step = "store" THEN "generate" ELSE "done"

\* Where a run stands after the awaited storage step: the rejection of the
\* step is rethrown by the catch block of the handler.
NextStep(step, committed) ==
    IF ~committed THEN "failed"
    ELSE IF step = "store" THEN "generate" ELSE "done"

\* Promise.all(allNewsArticles.map(...)) and the relevance filter.
EnrichAndFilter ==
    /\ npc = "enrich"
    /\ toStore' = RelevantNews(allNewsArticles)
    /\ npc' = "store"
    /\ UNCHANGED <<keyword, allNewsArticles, firstSeen, urlOrder, lastSeen, notNewsVars,
                   runVars, newsDocs, generatorToday>>

\* await storeNewsData(relevantArticles): the batch commits, or it fails and
\* the error is rethrown by storeNewsData and by the handler; a failed batch
\* writes nothing.
StoreNews ==
    /\ npc = "store"
    /\ invoked' = Append(invoked, "store")
    /\ \E committed \in BOOLEAN :
         /\ newsDocs' = IF committed
                        THEN [newsDocs EXCEPT ![RunDay] = SetMerge(@, StoredNews(toStore))]
                        ELSE newsDocs
         /\ npc' = NextStep("store", committed)
         /\ runError' = IF committed THEN runError ELSE "store"
    /\ UNCHANGED <<keyword, allNewsArticles, firstSeen, urlOrder, lastSeen, notNewsVars,
                   toStore, generatorToday>>

\* await generateNewsJsonFile(relevantArticles), likewise.
GenerateNews ==
    /\ npc = "generate"
    /\ invoked' = Append(invoked, "generate")
    /\ \E committed \in BOOLEAN :
         /\ newsDocs' = IF committed
                        THEN [newsDocs EXCEPT
                                 ![generatorToday] = WriteGenerated(@, GeneratedNews(toStore))]
                        ELSE newsDocs
         /\ npc' = NextStep("generate", committed)
         /\ runError' = IF committed THEN runError ELSE "generate"
    /\ UNCHANGED <<keyword, allNewsArticles, firstSeen, urlOrder, lastSeen, notNewsVars,
                   toStore, generatorToday>>

NewsNext ==
    \/ FetchOk \/ FetchNotOk \/ FetchThrows \/ FetchLoopDone
    \/ EnrichAndFilter \/ StoreNews \/ GenerateNews

SpecNews == NewsInit /\ [][NewsNext]_vars

(***************************************************************************)
(* fetchMarketDataScheduledFunction and fetchOptionsChainScheduledFunction *)
(***************************************************************************)
stockTickers ==
    <<"AAPL", "MSFT", "GOOGL", "AMZN", "META", "TSLA", "NVDA", "JPM", "BAC", "V">>
optionsTickers == <<"AAPL", "MSFT", "TSLA", "AMZN", "SPY">>
TrackedTickers(kind) == IF kind = "market" THEN stockTickers ELSE optionsTickers

\* What the provider answers for one symbol: the call throws, the answer holds
\* no data, or it holds data.  The data of the options provider are the
\* contracts of the one or two nearest expirations; wellFormed[k] tells whether
\* every contract of the k-th expiration has its contract_type.
MarketResponses ==
    {[kind |-> k, wellFormed |-> <<>>] : k \in {"throws", "nodata", "data"}}
OptionsResponses ==
    {[kind |-> k, wellFormed |-> <<>>] : k \in {"throws", "nodata"}}
        \cup {[kind |-> "data", wellFormed |-> w] :
                 w \in UNION {[1..n -> BOOLEAN] : n \in 1..2}}
Responses(kind) == IF kind = "market" THEN MarketResponses ELSE OptionsResponses

\* marketData.push(stockQuote); a market record has no expiration.
StockQuoteOf(ticker) == [symbol |-> ticker, expiration |-> 0]

\* for (const expDate of expirationDates) { contracts.map(...); push(...) }:
\* the map throws at a contract without contract_type, after the contracts of
\* the expirations before it have been pushed.
RECURSIVE PushExpirations(_, _, _, _)
PushExpirations(data, ticker, wellFormed, k) ==
    IF k > Len(wellFormed) THEN [data |-> data, thrown |-> FALSE]
    ELSE IF ~wellFormed[k] THEN [data |-> data, thrown |-> TRUE]
    ELSE PushExpirations(Append(data, [symbol |-> ticker, expiration |-> k]),
                         ticker, wellFormed, k + 1)

\* The body of the loop for one ticker, its try and catch included: the list
\* afterwards, and whether the catch block was entered.
ProcessTicker(kind, data, ticker, response) ==
    IF response.kind = "throws" THEN [data |-> data, thrown |-> TRUE]
    ELSE IF response.kind = "nodata" THEN [data |-> data, thrown |-> FALSE]
    ELSE IF kind = "market"
         THEN [data |-> Append(data, StockQuoteOf(ticker)), thrown |-> FALSE]
         ELSE PushExpirations(data, ticker, response.wellFormed, 1)

\* The symbol was fetched and parsed without an error and with data.
Succeeds(kind, response) ==
    /\ response.kind = "data"
    /\ \A k \in DOMAIN response.wellFormed : response.wellFormed[k]

IngestInit ==
    /\ mpc = "loop"
    /\ runKind \in {"market", "options"}
    /\ attempted = <<>>
    /\ collected = <<>>
    /\ succeeded = <<>>
    /\ RunIdle /\ NewsStoreIdle /\ WatchIdle
    /\ ApiIdle /\ FetchIdle
    /\ ProcessIdle /\ IdentifyIdle /\ GroupIdle
    /\ RelevanceIdle /\ EnrichIdle /\ CorrelateIdle

\* One pass of the loop over the tracked tickers.
FetchTicker ==
    /\ mpc = "loop"
    /\ Len(attempted) < Len(TrackedTickers(runKind))
    /\ LET ticker == TrackedTickers(runKind)[Len(attempted) + 1]
       IN \E response \in Responses(runKind) :
            /\ attempted' = Append(attempted, ticker)
            /\ collected' = ProcessTicker(runKind, collected, ticker, response).data
            /\ succeeded' = IF Succeeds(runKind, response)
                            THEN Append(succeeded, ticker)
                            ELSE succeeded
    /\ UNCHANGED <<mpc, runKind, runVars, notIngestVars>>

\* The loop is over: the run goes on to the storage steps.
LoopDone ==
    /\ mpc = "loop"
    /\ Len(attempted) = Len(TrackedTickers(runKind))
    /\ mpc' = "store"
    /\ UNCHANGED <<runKind, attempted, collected, succeeded, runVars, notIngestVars>>

\* await storeMarketData(marketData) / await storeOptionsData(allOptionsData)
StoreData ==
    /\ mpc = "store"
    /\ invoked' = Append(invoked, "store")
    /\ \E committed \in BOOLEAN :
         /\ mpc' = NextStep("store", committed)
         /\ runError' = IF committed THEN runError ELSE "store"
    /\ UNCHANGED <<runKind, attempted, collected, succeeded, notIngestVars>>

\* await generateMarketDataJsonFile(marketData) / generateOptionsDataJsonFile
GenerateData ==
    /\ mpc = "generate"
    /\ invoked' = Append(invoked, "generate")
    /\ \E committed \in BOOLEAN :
         /\ mpc' = NextStep("generate", committed)
         /\ runError' = IF committed THEN runError ELSE "generate"
    /\ UNCHANGED <<runKind, attempted, collected, succeeded, notIngestVars>>

IngestNext == FetchTicker \/ LoopDone \/ StoreData \/ GenerateData

SpecIngest == IngestInit /\ [][IngestNext]_vars

(***************************************************************************)
(* Observations on a market or options run                                *)
(***************************************************************************)
IsPrefix(p, q) == Len(p) <= Len(q) /\ \A k \in DOMAIN p : p[k] = q[k]
SymbolsOf(data) == {data[k].symbol : k \in DOMAIN data}
ElementsOf(list) == {list[k] : k \in DOMAIN list}

\* C22: every tracked symbol is attempted exactly once in list order whatever
\* fails for single symbols; the records handed to storage are exactly those
\* of the symbols that succeeded; the run does not fail in the loop.
C22_PerSymbolFailureIsolated ==
    /\ mpc \in {"loop", "store", "generate", "done", "failed"} =>
           /\ IsPrefix(attempted, TrackedTickers(runKind))
           /\ mpc # "loop" => attempted = TrackedTickers(runKind)
           /\ mpc = "failed" => runError \in {"store", "generate"}
    /\ mpc \in {"store", "generate", "done", "failed"} =>
           SymbolsOf(collected) = ElementsOf(succeeded)

(***************************************************************************)
(* The three ingestion runs and their storage steps                       *)
(***************************************************************************)
RunsInit == NewsInit \/ IngestInit
RunsNext == NewsNext \/ IngestNext
SpecRuns == RunsInit /\ [][RunsNext]_vars

\* Where the run at hand stands.
RunAt == IF npc # "idle" THEN npc ELSE mpc

\* C23: in each run the store step comes before the generator step; when a
\* step fails the run ends re-raising that error and no later storage step is
\* executed, so a failed store step means the generator is never invoked.
C23_StoreBeforeGeneratorFailFast ==
    /\ invoked \in {<<>>, <<"store">>, <<"store", "generate">>}
    /\ RunAt = "generate" => invoked = <<"store">>
    /\ RunAt = "done" => invoked = <<"store", "generate">>
    /\ runError # "none" <=> RunAt = "failed"
    /\ runError = "store" => invoked = <<"store">>
    /\ runError = "generate" => invoked = <<"store", "generate">>
    /\ runError = "fetch" => invoked = <<>>

C23_Witness ==
    /\ npc = "failed"
    /\ toStore # <<>>
    /\ runError = "store"
    /\ invoked = <<"store">>

(***************************************************************************)
(* Observations on the news run                                           *)
(***************************************************************************)
\* No storage step of this run has written a document.
NothingWritten == \A d \in Days : newsDocs[d] \in {NoDoc, EarlierDoc}

\* C27: when the query of a keyword throws, the run fails with that error and
\* neither storage step is invoked, so what was collected is never stored; a
\* run that gets past the loop has queried every keyword; a query that adds
\* nothing (status not "ok") leaves the run in its loop.
C27_KeywordThrowFailsRun ==
    /\ [](runError = "fetch" =>
              /\ npc = "failed"
              /\ keyword < NumKeywords
              /\ invoked = <<>>
              /\ toStore = <<>>
              /\ NothingWritten)
    /\ [](npc \in {"enrich", "store", "generate", "done"} => keyword = NumKeywords)
    /\ [][npc = "fetch" /\ keyword' = keyword + 1 => npc' = "fetch"]_vars

C27_Witness ==
    /\ npc = "failed"
    /\ runError = "fetch"
    /\ keyword >= 1
    /\ Len(allNewsArticles) >= 2
    /\ invoked = <<>>

\* C28: in a successful run whose two storage steps compute the same date,
\* news/<date> ends as the generator's projection (generated, date, projected
\* articles); nothing storeNewsData wrote to it (updatedAt, the full articles
\* with relevanceScore) survives.
C28_GeneratorOverwritesStoredNews ==
    /\ (npc = "generate" /\ generatorToday = RunDay) =>
           /\ "updatedAt" \in DOMAIN newsDocs[RunDay]
           /\ newsDocs[RunDay].articles = toStore
    /\ (npc = "done" /\ generatorToday = RunDay) =>
           /\ DOMAIN newsDocs[RunDay] = {"generated", "date", "articles"}
           /\ newsDocs[RunDay].generated = "now"
           /\ newsDocs[RunDay].date = RunDay
           /\ Len(newsDocs[RunDay].articles) = Len(toStore)
           /\ \A k \in DOMAIN toStore :
                  /\ DOMAIN newsDocs[RunDay].articles[k]
                         = {"title", "url", "sentiment", "tickers"}
                  /\ newsDocs[RunDay].articles[k].title = toStore[k].title
                  /\ newsDocs[RunDay].articles[k].url = toStore[k].url
                  /\ "relevanceScore" \in DOMAIN toStore[k]

C28_Witness ==
    /\ npc = "done"
    /\ generatorToday = RunDay
    /\ Len(toStore) >= 2
    /\ "updatedAt" \notin DOMAIN newsDocs[RunDay]
    /\ newsDocs[RunDay].articles[1].tickers = <<"AAPL">>

(***************************************************************************)
(* manageWatchlist: calls of one authenticated user whose profile exists  *)
(***************************************************************************)
WatchTickers == {"AAPL", "MSFT"}
\* "toggle" stands for any non-empty action other than add and remove, ""
\* for a missing one.
WatchActions == {"add", "remove", "toggle", ""}
CallIds == 1..MaxCalls

\* watchlist.includes(ticker)
Includes(list, ticker) == \E k \in 1..Len(list) : list[k] = ticker

\* watchlist.indexOf(ticker), 1-based; 0 stands for -1.
IndexOf(list, ticker) ==
    IF Includes(list, ticker)
    THEN CHOOSE k \in 1..Len(list) :
             list[k] = ticker /\ \A j \in 1..(k - 1) : list[j] # ticker
    ELSE 0

\* watchlist.splice(index, 1)
Splice(list, index) ==
    [k \in 1..(Len(list) - 1) |-> IF k < index THEN list[k] ELSE list[k + 1]]

\* A variant whose add branch pushes without looking at the list.
UpdateWatchlistPushAlways(list, action, ticker) ==
    IF action = "add"
    THEN [thrown |-> FALSE, watchlist |-> Append(list, ticker)]
    ELSE IF action = "remove"
         THEN [thrown |-> FALSE,
               watchlist |-> IF IndexOf(list, ticker) > 0
                             THEN Splice(list, IndexOf(list, ticker))
                             ELSE list]
         ELSE [thrown |-> TRUE, watchlist |-> list]

\* The if / else if / else over the action: push, splice, or throw the
\* invalid-argument error. An add of a ticker that is on the list fails the
\* first condition, is not a remove, and so reaches the else branch.
UpdateWatchlist(list, action, ticker) ==
    IF action = "add" /\ ~Includes(list, ticker)
    THEN [thrown |-> FALSE, watchlist |-> Append(list, ticker)]
    ELSE IF action = "remove"
         THEN [thrown |-> FALSE,
               watchlist |-> IF IndexOf(list, ticker) > 0
                             THEN Splice(list, IndexOf(list, ticker))
                             ELSE list]
         ELSE [thrown |-> TRUE, watchlist |-> list]

NoDuplicates(list) ==
    \A a, b \in 1..Len(list) : a # b => list[a] # list[b]

IdleWatchCall ==
    [pc |-> "idle", action |-> "", ticker |-> "", watchlist |-> <<>>,
     error |-> "none"]

WatchInit ==
    /\ \E n \in 0..Cardinality(WatchTickers) :
         \E list \in [1..n -> WatchTickers] :
            /\ NoDuplicates(list)
            /\ userWatchlist = list
    /\ wcalls = [c \in CallIds |-> IdleWatchCall]
    /\ writes = 0
    /\ ApiIdle /\ FetchIdle
    /\ ProcessIdle /\ IdentifyIdle /\ GroupIdle /\ RelevanceIdle
    /\ EnrichIdle /\ CorrelateIdle
    /\ RunIdle /\ NewsStoreIdle /\ IngestIdle

\* if (!action || !ticker) throw HttpsError("invalid-argument"): before the try
\* block, so the client sees this error itself.
RejectArguments(c) ==
    /\ wcalls[c].pc = "idle"
    /\ \E action \in WatchActions, ticker \in WatchTickers \cup {""} :
         /\ action = "" \/ ticker = ""
         /\ wcalls' = [wcalls EXCEPT ![c] =
                          [pc |-> "failed", action |-> action, ticker |-> ticker,
                           watchlist |-> <<>>, error |-> "invalid-argument"]]
    /\ UNCHANGED <<userWatchlist, writes, notWatchVars>>

\* The arguments pass the check and users/<uid> is read: the call holds a copy
\* of the stored watchlist as of now.
ReadUserDoc(c) ==
    /\ wcalls[c].pc = "idle"
    /\ \E action \in WatchActions \ {""}, ticker \in WatchTickers :
         wcalls' = [wcalls EXCEPT ![c] =
                       [pc |-> "read", action |-> action, ticker |-> ticker,
                        watchlist |-> userWatchlist, error |-> "none"]]
    /\ UNCHANGED <<userWatchlist, writes, notWatchVars>>

\* The continuation of the read: the list is changed in memory; on the else
\* branch the error is caught and rethrown as "internal" without a write;
\* otherwise update({watchlist, updatedAt}) replaces the stored field, or is
\* rejected by the store.
UpdateUserDoc(c) ==
    /\ wcalls[c].pc = "read"
    /\ LET r == UpdateWatchlist(wcalls[c].watchlist, wcalls[c].action, wcalls[c].ticker)
       IN IF r.thrown
          THEN /\ wcalls' = [wcalls EXCEPT ![c].pc = "failed", ![c].error = "internal"]
               /\ UNCHANGED <<userWatchlist, writes>>
          ELSE \E committed \in BOOLEAN :
                 IF committed
                 THEN /\ userWatchlist' = r.watchlist
                      /\ writes' = writes + 1
                      /\ wcalls' = [wcalls EXCEPT ![c].pc = "updated",
                                                  ![c].watchlist = r.watchlist]
                 ELSE /\ wcalls' = [wcalls EXCEPT ![c].pc = "failed",
                                                  ![c].watchlist = r.watchlist,
                                                  ![c].error = "internal"]
                      /\ UNCHANGED <<userWatchlist, writes>>
    /\ UNCHANGED notWatchVars

\* await updateUserData(userId, watchlist) writes marketData and updatedAt only;
\* then { success: true, watchlist } is returned, or its error is rethrown as
\* "internal".
ReturnWatchlist(c) ==
    /\ wcalls[c].pc = "updated"
    /\ \E committed \in BOOLEAN :
         wcalls' = [wcalls EXCEPT ![c].pc = IF committed THEN "success" ELSE "failed",
                                  ![c].error = IF committed THEN "none" ELSE "internal"]
    /\ UNCHANGED <<userWatchlist, writes, notWatchVars>>

WatchNext ==
    \/ \E c \in CallIds : RejectArguments(c)
    \/ \E c \in CallIds : ReadUserDoc(c)
    \/ \E c \in CallIds : UpdateUserDoc(c)
    \/ \E c \in CallIds : ReturnWatchlist(c)

SpecWatch == WatchInit /\ [][WatchNext]_vars

(***************************************************************************)
(* Observations on manageWatchlist calls                                  *)
(***************************************************************************)
AddedWithSuccess(c) == wcalls[c].pc = "success" /\ wcalls[c].action = "add"
\* The call has read the list and is about to act on an add of a ticker that
\* the list it read contains.
AddsExisting(c) ==
    /\ wcalls[c].pc = "read"
    /\ wcalls[c].action = "add"
    /\ Includes(wcalls[c].watchlist, wcalls[c].ticker)

C30_AddExistingFailsNoDuplicates ==
    /\ [](NoDuplicates(userWatchlist))
    /\ [][\A c \in CallIds :
            (AddsExisting(c) /\ wcalls'[c] # wcalls[c]) =>
                /\ wcalls'[c].pc = "failed"
                /\ wcalls'[c].error = "internal"
                /\ userWatchlist' = userWatchlist
                /\ writes' = writes]_vars

\* One call added MSFT with success; a later call that read the list with
\* MSFT on it and asked to add MSFT again failed with "internal", and the
\* stored list still is the one written by the first call.
C30_Witness ==
    /\ wcalls[1].pc = "success"
    /\ wcalls[1].action = "add"
    /\ wcalls[1].ticker = "MSFT"
    /\ wcalls[2].pc = "failed"
    /\ wcalls[2].action = "add"
    /\ wcalls[2].ticker = "MSFT"
    /\ wcalls[2].error = "internal"
    /\ wcalls[2].watchlist = <<"AAPL", "MSFT">>
    /\ userWatchlist = <<"AAPL", "MSFT">>
    /\ writes = 1

====
